---- MODULE Spec2Model ----
(***************************************************************************)
(* Sidequest: the task lifecycle handlers (src/lib/actions/tasks.ts), the  *)
(* block handlers (src/lib/actions/auth.ts) and the row-security policies  *)
(* of the store (src/supabase/migrations/00001_initial_schema.sql).        *)
(*                                                                         *)
(* Every handler obtains its store client from createClient()              *)
(* (src/lib/supabase/server.ts), which uses the anon key and the caller's  *)
(* session: each store call of a handler runs as the caller under the      *)
(* row-security policies.  A handler is a sequence of awaited store calls; *)
(* each store call is one atomic step, and steps of different calls        *)
(* interleave freely.                                                      *)
(***************************************************************************)
EXTENDS Integers, Sequences, FiniteSets, Bags, TLC

\* ------------------------------------------------------------------ bounds
Users == {"u1", "u2", "u3"}
TaskIds == {"t1"}
\* A text is the sequence of its characters.
Titles == {<<"a">>, <<"b">>}
NewTitles == {<<"a">>}
Posters == {"u1"}
Assignees == {"u2"}
\* is_blocked is symmetric, so one direction of a block covers both.
BlockPairs == {<<"u1", "u2">>}
MaxMsgs == 3
MaxInFlight == 2
RatingCalls == {"r1", "r2"}

\* ------------------------------------------------------------- vocabulary
NULL == "NULL"
\* The value of a task that is not in the table (and of "no data" from a read).
NoTask ==
  [poster_id |-> NULL, accepted_by_user_id |-> NULL, status |-> "NONE",
   title |-> <<>>, description |-> <<>>, category |-> NULL,
   location_text |-> <<>>, time_window |-> NULL, scheduled_at |-> NULL,
   price_cents |-> 0, accepted_at |-> NULL, completed_at |-> NULL,
   canceled_at |-> NULL]
\* Timestamps: the time of a store call, a time before it, a time after it,
\* and a string that is no timestamp.
TS == "ts"
PAST == "past"
FUTURE == "future"
INVALID_DATE == "invalid"
TimeWindows == {"NOW", "TODAY", "THIS_WEEK", "SCHEDULED"}
MAX_TITLE == 80
MAX_DESCRIPTION == 1000
MAX_LOCATION == 120
MIN_CENTS == 500
MAX_CENTS == 50000
MAX_BODY == 2000
MAX_COMMENT == 500
MIN_STARS == 1
MAX_STARS == 5
FEED_LIMIT == 50
Statuses == {"OPEN", "ACCEPTED", "COMPLETE", "CANCELED"}
Terminal == {"COMPLETE", "CANCELED"}

MsgAccepted == "Task accepted! You can now chat to coordinate details."
MsgCanceledPoster == "Task canceled by the poster."
MsgCanceledWorker == "Task canceled by the worker."
\* The stored body carries an emoji after "complete!"; it is left out here.
MsgComplete == "Task marked as complete! Don't forget to rate each other."

OK == "success"
ErrRules == "You must accept the rules before accepting tasks"
ErrRulesPost == "You must accept the rules before posting"
ErrNotFound == "Task not found"
ErrOwnTask == "You cannot accept your own task"
ErrNotAvailable == "This task is no longer available"
ErrBlocked == "Unable to accept this task"
ErrAcceptFailed == "Failed to accept task. It may have already been taken."
ErrCreateFailed == "Failed to create task"
ErrCannotCancel == "You cannot cancel this task"
ErrCancelComplete == "Cannot cancel a completed task"
ErrAlreadyCanceled == "Task is already canceled"
ErrWorkerCancel == "Cannot cancel this task"
ErrCancelFailed == "Failed to cancel task"
ErrOnlyPoster == "Only the task poster can mark it complete"
ErrNotAccepted == "Task must be accepted before it can be completed"
ErrCompleteFailed == "Failed to complete task"
ErrEditOwn == "You can only edit your own tasks"
ErrEditOpen == "Can only edit tasks that are still open"
ErrUpdateFailed == "Failed to update task"
ErrSelfBlock == "You cannot block yourself"
ErrAlreadyBlocked == "User is already blocked"
ErrBlockFailed == "Failed to block user"
ErrLoadTasks == "Failed to load tasks"
ErrRulesSave == "Failed to save. Please try again."
ErrUnauthorized == "Unauthorized"
ErrTitleRequired == "Title is required"
ErrTitleLong == "Title must be 80 characters or less"
ErrDescriptionRequired == "Description is required"
ErrDescriptionLong == "Description must be 1000 characters or less"
ErrLocationRequired == "Location is required"
ErrLocationLong == "Location must be 120 characters or less"
ErrMinPrice == "Minimum price is $5.00"
ErrMaxPrice == "Maximum price is $500.00"
ErrScheduledRequired == "Scheduled time is required"
ErrScheduledFuture == "Scheduled time must be in the future"
ErrPriceRange == "Price must be between $5 and $500"
ErrMessageEmpty == "Message cannot be empty"
ErrMessageLong == "Message is too long (max 2000 characters)"
ErrNotParticipant == "You are not a participant in this task"
ErrChatOpen == "Chat is only available after a task is accepted"
ErrChatCanceled == "Cannot send messages in a canceled task"
ErrSendBlocked == "Unable to send message"
ErrSendFailed == "Failed to send message"
ErrLoadFailed == "Failed to load messages"
ErrStars == "Rating must be 1-5 stars"
ErrCommentLong == "Comment must be 500 characters or less"
ErrRateComplete == "Can only rate completed tasks"
ErrNoRatee == "No one to rate"
ErrAlreadyRated == "You have already rated this task"
ErrRatingFailed == "Failed to submit rating"
ErrUnblockFailed == "Failed to unblock user"
ErrNotAuth == "Not authenticated"
ErrUserNotFound == "User not found"
RedirectHome == "/"
RedirectRules == "/rules"
RedirectSignIn == "/login?error=Failed to sign in"
RedirectNotAllowed == "/login?error=Only @uci.edu email addresses are allowed"
ErrWentWrong == "Something went wrong"
ErrNameLong == "Display name must be 50 characters or less"
ErrNameSave == "Failed to save"
ErrSignOut == "Failed to sign out"
MAX_NAME == 50

\* ----------------------------------------------------------------- emails
\* An address is the sequence of its characters.
Domain == <<"@", "u", "c", "i", ".", "e", "d", "u">>

\* The addresses the users of the model signed up with at first.
UserEmail ==
  [u1 |-> <<"a">> \o Domain, u2 |-> <<"b">> \o Domain,
   u3 |-> <<"c">> \o Domain]

\* String.toLowerCase, on the capitals that occur in the model.
LowerOf ==
  [A |-> "a", B |-> "b", C |-> "c", D |-> "d", E |-> "e", I |-> "i",
   U |-> "u"]

toLowerCase(s) ==
  [i \in 1..Len(s) |-> IF s[i] \in DOMAIN LowerOf THEN LowerOf[s[i]] ELSE s[i]]

endsWith(s, suffix) ==
  /\ Len(s) >= Len(suffix)
  /\ SubSeq(s, Len(s) - Len(suffix) + 1, Len(s)) = suffix

\* CHECK (email ~* '^[^@]+@uci\.edu$'): a local part of one or more
\* characters other than "@", then the domain, letters in either case.
email_format(email) ==
  /\ endsWith(toLowerCase(email), Domain)
  /\ Len(email) > Len(Domain)
  /\ \A i \in 1..(Len(email) - Len(Domain)) : email[i] # "@"

\* Table profiles: the row of user u, or NoProfile when u has no row.
NoProfile ==
  [id |-> NULL, email |-> <<>>, display_name |-> <<>>,
   accepted_rules |-> FALSE]

\* The row the first login inserts: accepted_rules defaults to false, the
\* display name to null (the empty text stands for it).
NewProfile(u, email) ==
  [id |-> u, email |-> email, display_name |-> <<>>, accepted_rules |-> FALSE]

VARIABLES auth, profiles, tasks, messages, blocks, ratings, calls, rcalls,
          response

vars ==
  <<auth, profiles, tasks, messages, blocks, ratings, calls, rcalls, response>>

\* ----------------------------------------------------------------- inputs
\* The inputs of createTask and updateTask in the lifecycle specification.
NewInputs ==
  {[title |-> x, description |-> <<"d">>, category |-> "OTHER",
    location_text |-> <<"l">>, time_window |-> "NOW", scheduled_at |-> NULL,
    price_cents |-> MIN_CENTS] : x \in NewTitles}
Edits == {[title |-> x] : x \in Titles}

\* A text of n characters.
Long(n) == [i \in 1..n |-> "x"]

Prices == {MIN_CENTS - 1, MIN_CENTS, MAX_CENTS, MAX_CENTS + 1}

\* The inputs of createTask and updateTask in the creation specification:
\* texts that are empty, blank, padded and over-long, prices at and beyond
\* both ends of the band, each window with each kind of timestamp.
ValidInput ==
  [title |-> <<"a">>, description |-> <<"d">>, category |-> "OTHER",
   location_text |-> <<"l">>, time_window |-> "NOW", scheduled_at |-> NULL,
   price_cents |-> MIN_CENTS]

CreateInputs ==
  {[ValidInput EXCEPT !.title = x] :
      x \in {<<>>, <<" ">>, <<" ", "a">>, Long(MAX_TITLE + 1)}}
    \cup {[ValidInput EXCEPT !.description = x] :
             x \in {<<" ">>, Long(MAX_DESCRIPTION + 1)}}
    \cup {[ValidInput EXCEPT !.location_text = x] :
             x \in {<<>>, Long(MAX_LOCATION + 1)}}
    \cup {[ValidInput EXCEPT !.price_cents = p] : p \in Prices}
    \cup {[ValidInput EXCEPT !.time_window = w, !.scheduled_at = x] :
             w \in {"NOW", "SCHEDULED"},
             x \in {NULL, PAST, FUTURE, INVALID_DATE}}

EditInputs ==
  {[title |-> x] : x \in {<<"b">>, <<" ">>, Long(MAX_TITLE + 1)}}
    \cup {[price_cents |-> p] : p \in Prices}
    \cup {[title |-> <<"b">>, price_cents |-> p] : p \in Prices}
    \cup {[description |-> <<"e">>], [title |-> <<>>]}

\* ------------------------------------------------------------------ store
\* One row of table tasks (the columns the handlers read or write).
\* String.prototype.trim(): leading and trailing blanks are removed.
RECURSIVE TrimStart(_)
TrimStart(s) == IF s # <<>> /\ Head(s) = " " THEN TrimStart(Tail(s)) ELSE s

RECURSIVE TrimEnd(_)
TrimEnd(s) ==
  IF s # <<>> /\ s[Len(s)] = " " THEN TrimEnd(SubSeq(s, 1, Len(s) - 1)) ELSE s

trim(s) == TrimEnd(TrimStart(s))

\* The row createTask inserts for input; the other columns take their
\* defaults.
NewTask(u, input) ==
  [poster_id |-> u, accepted_by_user_id |-> NULL, status |-> "OPEN",
   title |-> trim(input.title), description |-> trim(input.description),
   category |-> input.category, location_text |-> trim(input.location_text),
   time_window |-> input.time_window,
   scheduled_at |->
     IF input.time_window = "SCHEDULED" THEN input.scheduled_at ELSE NULL,
   price_cents |-> input.price_cents, accepted_at |-> NULL,
   completed_at |-> NULL, canceled_at |-> NULL]

\* A value the store accepts for a TIMESTAMPTZ column.
timestamptz(v) == v \in {NULL, TS, PAST, FUTURE}

\* NOT NULL, column types and the CHECK constraints of table tasks.
tasks_constraints(row) ==
  /\ Len(row.title) >= 1 /\ Len(row.title) <= MAX_TITLE
  /\ Len(row.description) >= 1 /\ Len(row.description) <= MAX_DESCRIPTION
  /\ Len(row.location_text) >= 1 /\ Len(row.location_text) <= MAX_LOCATION
  /\ row.time_window \in TimeWindows
  /\ timestamptz(row.scheduled_at)
  /\ row.price_cents >= MIN_CENTS /\ row.price_cents <= MAX_CENTS
  /\ \/ (row.time_window = "SCHEDULED" /\ row.scheduled_at # NULL)
     \/ row.time_window # "SCHEDULED"

\* .update({...}): the patch replaces the named columns only.
Apply(row, patch) ==
  [f \in DOMAIN row |-> IF f \in DOMAIN patch THEN patch[f] ELSE row[f]]

\* Table blocks is the bag of its rows [blocker_id, blocked_id]: the key
\* column id is left out, so that two rows of one pair are two copies.
BlockRow(blockerId, blockedId) ==
  [blocker_id |-> blockerId, blocked_id |-> blockedId]

\* is_blocked looking at one direction only.
is_blocked_OneWay(viewer_id, other_id) ==
  BagIn(BlockRow(other_id, viewer_id), blocks)

\* is_blocked reading the viewer's own block rows only.
is_blocked_Blocker(viewer_id, other_id) ==
  BagIn(BlockRow(viewer_id, other_id), blocks)

is_blocked(viewer_id, other_id) ==
  \/ BagIn(BlockRow(viewer_id, other_id), blocks)
  \/ BagIn(BlockRow(other_id, viewer_id), blocks)

blocks_insert(uid, row) == auth[uid].session /\ row.blocker_id = uid

\* The constraints of table blocks without UNIQUE(blocker_id, blocked_id).
blocks_constraints_NoUnique(row) == row.blocker_id # row.blocked_id

\* no_self_block and UNIQUE(blocker_id, blocked_id) of table blocks.
blocks_constraints(row) ==
  /\ row.blocker_id # row.blocked_id
  /\ ~BagIn(row, blocks)

\* The policies are granted TO authenticated: a caller without a session is
\* shown no row and may write none.
tasks_read(uid, row) ==
  /\ auth[uid].session
  /\ ~is_blocked(uid, row.poster_id)
  /\ (row.accepted_by_user_id = NULL \/ ~is_blocked(uid, row.accepted_by_user_id))

tasks_insert(uid, row) ==
  /\ auth[uid].session
  /\ row.poster_id = uid
  /\ profiles[uid].accepted_rules

tasks_update_using(uid, row) ==
  \/ row.poster_id = uid
  \/ row.accepted_by_user_id = uid

tasks_update_check(uid, row) ==
  \/ (row.poster_id = uid /\ row.status = "OPEN")
  \/ (row.poster_id = uid /\ row.status = "CANCELED")
  \/ (row.accepted_by_user_id = uid /\ row.status = "CANCELED")
  \/ /\ row.status = "ACCEPTED"
     /\ row.accepted_by_user_id = uid
     /\ row.poster_id # uid
     /\ profiles[uid].accepted_rules
  \/ (row.poster_id = uid /\ row.status = "COMPLETE")

messages_insert(uid, t, msg) ==
  /\ msg.sender_id = uid
  /\ tasks[t] # NoTask
  /\ tasks_read(uid, tasks[t])
  /\ (tasks[t].poster_id = uid \/ tasks[t].accepted_by_user_id = uid)
  /\ ~is_blocked(tasks[t].poster_id, tasks[t].accepted_by_user_id)

\* The policy's subquery on tasks runs as the caller: it sees the rows that
\* tasks_read shows.
messages_read(uid, t) ==
  /\ tasks[t] # NoTask
  /\ tasks_read(uid, tasks[t])
  /\ (tasks[t].poster_id = uid \/ tasks[t].accepted_by_user_id = uid)

\* NOT NULL and the CHECK constraint of table messages.
messages_constraints(msg) ==
  msg.type = "TEXT" => Len(msg.body) >= 1 /\ Len(msg.body) <= MAX_BODY

TextMessage(uid, body) == [sender_id |-> uid, type |-> "TEXT", body |-> body]

\* The row of table ratings that call c of user uid inserts; an empty comment
\* is stored as null (the empty text stands for it).
NewRating(c, uid, t, ratee, input) ==
  [id |-> c, task_id |-> t, rater_id |-> uid, ratee_id |-> ratee,
   stars |-> input.stars, comment |-> trim(input.comment)]

\* The policy's subquery on tasks runs as the caller under tasks_read.
ratings_insert(uid, row) ==
  /\ row.rater_id = uid
  /\ tasks[row.task_id] # NoTask
  /\ tasks_read(uid, tasks[row.task_id])
  /\ tasks[row.task_id].status = "COMPLETE"
  /\ \/ tasks[row.task_id].poster_id = uid
     \/ tasks[row.task_id].accepted_by_user_id = uid
  /\ \/ /\ tasks[row.task_id].poster_id = uid
        /\ row.ratee_id = tasks[row.task_id].accepted_by_user_id
     \/ /\ tasks[row.task_id].accepted_by_user_id = uid
        /\ row.ratee_id = tasks[row.task_id].poster_id

\* The constraints of table ratings without UNIQUE(task_id, rater_id).
ratings_constraints_NoUnique(row) ==
  /\ row.ratee_id # NULL
  /\ row.stars >= MIN_STARS /\ row.stars <= MAX_STARS
  /\ Len(row.comment) <= MAX_COMMENT
  /\ row.rater_id # row.ratee_id

\* NOT NULL, the CHECK constraints and UNIQUE(task_id, rater_id) of table
\* ratings.
ratings_constraints(row) ==
  /\ row.ratee_id # NULL
  /\ row.stars >= MIN_STARS /\ row.stars <= MAX_STARS
  /\ Len(row.comment) <= MAX_COMMENT
  /\ row.rater_id # row.ratee_id
  /\ ~\E r \in ratings :
        r.task_id = row.task_id /\ r.rater_id = row.rater_id

\* from('tasks').select('*').eq('id', t).single() as uid: the row, or no data.
SelectTask(uid, t) ==
  IF tasks[t] # NoTask /\ tasks_read(uid, tasks[t]) THEN tasks[t] ELSE NoTask

\* from('tasks').update(patch).eq('id', t)[.eq('status', 'OPEN')] as uid.
\* "none": no row matched (no error is reported); "error": the new row is
\* rejected by the policy; "ok": the row is replaced.
UpdateOutcome(uid, t, patch, onlyOpen) ==
  IF \/ tasks[t] = NoTask
     \/ ~tasks_read(uid, tasks[t])
     \/ (onlyOpen /\ tasks[t].status # "OPEN")
     \/ ~tasks_update_using(uid, tasks[t])
  THEN "none"
  ELSE IF /\ tasks_constraints(Apply(tasks[t], patch))
          /\ tasks_update_check(uid, Apply(tasks[t], patch))
          /\ tasks_read(uid, Apply(tasks[t], patch))
       THEN "ok"
       ELSE "error"

SystemMessage(uid, body) == [sender_id |-> uid, type |-> "SYSTEM", body |-> body]

\* ------------------------------------------------------------------ calls
\* calls[u] is the handler call that user u has in flight; pc names the store
\* call the handler is about to issue.  response is the result that the step
\* just taken returned to its caller (NoResponse when the step returned none).
Idle == [op |-> "idle", pc |-> "idle", task |-> NULL, arg |-> NULL, loc |-> NULL]

NoResponse ==
  [user |-> NULL, op |-> "none", task |-> NULL, result |-> NULL, data |-> <<>>]

Running(u) == calls[u] # Idle

InFlight == {u \in Users : Running(u)}

CanCall(u) == ~Running(u) /\ Cardinality(InFlight) < MaxInFlight

Call(op, pc, t, arg, loc) ==
  [op |-> op, pc |-> pc, task |-> t, arg |-> arg, loc |-> loc]

Result(u, op, t, result) ==
  [user |-> u, op |-> op, task |-> t, result |-> result, data |-> <<>>]

\* A result that carries rows.
ResultData(u, op, t, result, data) ==
  [user |-> u, op |-> op, task |-> t, result |-> result, data |-> data]

At(u, op, pc) == calls[u].op = op /\ calls[u].pc = pc

\* The first store call of a handler: the handler returns r, or goes on as c.
EnterAnon(u, op, t, r, c) ==
  /\ CanCall(u)
  /\ IF r # NULL
     THEN /\ response' = Result(u, op, t, r)
          /\ UNCHANGED calls
     ELSE /\ response' = NoResponse
          /\ calls' = [calls EXCEPT ![u] = c]

\* A handler entry that does not look at the session.
Enter_NoAuth(u, op, t, r, c) == EnterAnon(u, op, t, r, c)

\* auth.getUser() first: without a session the handler returns
\* 'Not authenticated' before any store call.
Enter(u, op, t, r, c) ==
  EnterAnon(u, op, t, IF ~auth[u].session THEN ErrNotAuth ELSE r, c)

Goto(u, pc, loc) ==
  /\ calls' = [calls EXCEPT ![u].pc = pc, ![u].loc = loc]
  /\ response' = NoResponse

Finish(u, result) ==
  /\ calls' = [calls EXCEPT ![u] = Idle]
  /\ response' = Result(u, calls[u].op, calls[u].task, result)

\* rcalls[c] is a submitRating call in flight: one user may have several.
RIdle ==
  [user |-> NULL, pc |-> "idle", task |-> NULL,
   input |-> [stars |-> 0, comment |-> <<>>], ratee |-> NULL]

\* Every user has signed up with a campus address, is signed in and has the
\* profile row of the first login.
Init ==
  /\ auth = [u \in Users |-> [email |-> UserEmail[u], session |-> TRUE]]
  /\ profiles = [u \in Users |-> NewProfile(u, UserEmail[u])]
  /\ tasks = [t \in TaskIds |-> NoTask]
  /\ messages = [t \in TaskIds |-> <<>>]
  /\ blocks = EmptyBag
  /\ ratings = {}
  /\ calls = [u \in Users |-> Idle]
  /\ rcalls = [c \in RatingCalls |-> RIdle]
  /\ response = NoResponse

\* --------------------------------------------------------------- profiles
\* isValidUCIEmail of the utilities.
isValidUCIEmail(email) == endsWith(trim(toLowerCase(email)), Domain)

\* Row-level security of table profiles, granted TO authenticated.
profiles_read(uid, row) == auth[uid].session /\ row # NoProfile

profiles_update(uid, row) == auth[uid].session /\ row.id = uid

profiles_insert(uid, row) == auth[uid].session /\ row.id = uid

\* email UNIQUE, CONSTRAINT email_format, CONSTRAINT display_name_length.
profiles_constraints(row) ==
  /\ email_format(row.email)
  /\ Len(row.display_name) <= MAX_NAME
  /\ \A o \in Users \ {row.id} :
       profiles[o] # NoProfile => profiles[o].email # row.email

\* ------------------------------------------------------------ acceptRules
\* from('profiles').update(patch).eq('id', u) as u: the row of u, if there is
\* one, takes the patch (profiles_update admits the owner).
UpdateProfile(u, patch) ==
  IF profiles[u] = NoProfile THEN profiles
  ELSE [profiles EXCEPT ![u] = Apply(profiles[u], patch)]

user_mismatch(u, userId) == u # userId

acceptRules(u, userId) ==
  /\ CanCall(u)
  /\ \E fail \in BOOLEAN :
       IF ~auth[u].session
       THEN /\ response' = Result(u, "acceptRules", NULL, ErrNotAuth)
            /\ UNCHANGED profiles
       ELSE IF user_mismatch(u, userId)
       THEN /\ response' = Result(u, "acceptRules", NULL, ErrUnauthorized)
            /\ UNCHANGED profiles
       ELSE IF fail
       THEN /\ response' = Result(u, "acceptRules", NULL, ErrRulesSave)
            /\ UNCHANGED profiles
       ELSE /\ profiles' = UpdateProfile(u, [accepted_rules |-> TRUE])
            /\ response' = Result(u, "acceptRules", NULL, OK)
  /\ UNCHANGED <<tasks, messages, blocks, calls, ratings, rcalls, auth>>

\* ------------------------------------------------------ updateDisplayName
updateDisplayName(u, displayName) ==
  /\ CanCall(u)
  /\ \E fail \in BOOLEAN :
       LET trimmed == trim(displayName) IN
       IF ~auth[u].session
       THEN /\ response' = Result(u, "updateDisplayName", NULL, ErrNotAuth)
            /\ UNCHANGED profiles
       ELSE IF Len(trimmed) > MAX_NAME
       THEN /\ response' = Result(u, "updateDisplayName", NULL, ErrNameLong)
            /\ UNCHANGED profiles
       ELSE IF fail
       THEN /\ response' = Result(u, "updateDisplayName", NULL, ErrNameSave)
            /\ UNCHANGED profiles
       ELSE /\ profiles' = UpdateProfile(u, [display_name |-> trimmed])
            /\ response' = Result(u, "updateDisplayName", NULL, OK)
  /\ UNCHANGED <<tasks, messages, blocks, calls, ratings, rcalls, auth>>

\* ---------------------------------------------------------------- signOut
signOut(u) ==
  /\ CanCall(u)
  /\ \E fail \in BOOLEAN :
       IF fail
       THEN /\ response' = Result(u, "signOut", NULL, ErrSignOut)
            /\ UNCHANGED auth
       ELSE /\ auth' = [auth EXCEPT ![u].session = FALSE]
            /\ response' = Result(u, "signOut", NULL, OK)
  /\ UNCHANGED <<profiles, tasks, messages, blocks, calls, ratings, rcalls>>

\* ------------------------------------------------- GET /auth/callback
\* exchangeCodeForSession: the visitor u, who proved to own auth[u].email,
\* gets a session; then the address is checked.
GET(u) ==
  /\ CanCall(u)
  /\ \E fail \in BOOLEAN :
       IF fail
       THEN /\ response' = Result(u, "GET", NULL, RedirectSignIn)
            /\ UNCHANGED <<auth, calls>>
       ELSE /\ auth' = [auth EXCEPT ![u].session = TRUE]
            /\ response' = NoResponse
            /\ calls' =
                 [calls EXCEPT ![u] =
                    Call("GET",
                         IF ~isValidUCIEmail(auth[u].email) THEN "signOut"
                         ELSE "upsert",
                         NULL, NULL, NULL)]
  /\ UNCHANGED <<profiles, tasks, messages, blocks, ratings, rcalls>>

\* await supabase.auth.signOut(): its result is not looked at.
GET_signOut(u) ==
  /\ At(u, "GET", "signOut")
  /\ \E fail \in BOOLEAN :
       auth' = [auth EXCEPT ![u].session = IF fail THEN @ ELSE FALSE]
  /\ Finish(u, RedirectNotAllowed)
  /\ UNCHANGED <<profiles, tasks, messages, blocks, ratings, rcalls>>

\* upsert({id, email}, {onConflict: 'id', ignoreDuplicates: true}): a row is
\* inserted when the user has none; an error is logged and passed over.
GET_upsert(u) ==
  /\ At(u, "GET", "upsert")
  /\ \E fail \in BOOLEAN :
       LET row == NewProfile(u, toLowerCase(auth[u].email)) IN
       profiles' =
         IF /\ ~fail
            /\ profiles[u] = NoProfile
            /\ profiles_insert(u, row)
            /\ profiles_constraints(row)
         THEN [profiles EXCEPT ![u] = row]
         ELSE profiles
  /\ Goto(u, "profile", NULL)
  /\ UNCHANGED <<tasks, messages, blocks, ratings, rcalls, auth>>

\* select('accepted_rules').eq('id', user.id).single(), then the redirect.
GET_profile(u) ==
  /\ At(u, "GET", "profile")
  /\ \E fail \in BOOLEAN :
       LET profile ==
             IF ~fail /\ profiles_read(u, profiles[u]) THEN profiles[u]
             ELSE NoProfile
       IN  Finish(u, IF profile # NoProfile /\ ~profile.accepted_rules
                     THEN RedirectRules ELSE RedirectHome)
  /\ UNCHANGED <<profiles, tasks, messages, blocks, ratings, rcalls, auth>>

\* ------------------------------------------- direct writes of profiles
\* from('profiles').update(patch).eq('id', u) sent by the browser client.
ClientUpdateProfile(u, patch) ==
  /\ profiles[u] # NoProfile
  /\ profiles_update(u, profiles[u])
  /\ LET row == Apply(profiles[u], patch) IN
       /\ row # profiles[u]
       /\ profiles_update(u, row)
       /\ profiles_constraints(row)
       /\ profiles' = [profiles EXCEPT ![u] = row]
  /\ response' = NoResponse
  /\ UNCHANGED <<tasks, messages, blocks, calls, ratings, rcalls, auth>>

\* from('profiles').insert(row) sent by the browser client.
ClientInsertProfile(u, row) ==
  /\ profiles_insert(u, row)
  /\ profiles[row.id] = NoProfile
  /\ profiles_constraints(row)
  /\ profiles' = [profiles EXCEPT ![row.id] = row]
  /\ response' = NoResponse
  /\ UNCHANGED <<tasks, messages, blocks, calls, ratings, rcalls, auth>>

\* ------------------------------------------------------------- createTask
\* The call and its first store call: the profile read.
\* new Date(s) <= new Date(): an unparsable s gives an Invalid Date, for
\* which the comparison is false.
NotInFuture(s) == s = PAST

\* validateTaskInput without the comparison of scheduled_at with the clock.
validateTaskInput_NoFuture(input) ==
  IF Len(trim(input.title)) = 0 THEN ErrTitleRequired
  ELSE IF Len(input.title) > MAX_TITLE THEN ErrTitleLong
  ELSE IF Len(trim(input.description)) = 0 THEN ErrDescriptionRequired
  ELSE IF Len(input.description) > MAX_DESCRIPTION THEN ErrDescriptionLong
  ELSE IF Len(trim(input.location_text)) = 0 THEN ErrLocationRequired
  ELSE IF Len(input.location_text) > MAX_LOCATION THEN ErrLocationLong
  ELSE IF input.price_cents < MIN_CENTS THEN ErrMinPrice
  ELSE IF input.price_cents > MAX_CENTS THEN ErrMaxPrice
  ELSE IF input.time_window = "SCHEDULED" /\ input.scheduled_at = NULL
       THEN ErrScheduledRequired
  ELSE NULL

validateTaskInput(input) ==
  IF Len(trim(input.title)) = 0 THEN ErrTitleRequired
  ELSE IF Len(input.title) > MAX_TITLE THEN ErrTitleLong
  ELSE IF Len(trim(input.description)) = 0 THEN ErrDescriptionRequired
  ELSE IF Len(input.description) > MAX_DESCRIPTION THEN ErrDescriptionLong
  ELSE IF Len(trim(input.location_text)) = 0 THEN ErrLocationRequired
  ELSE IF Len(input.location_text) > MAX_LOCATION THEN ErrLocationLong
  ELSE IF input.price_cents < MIN_CENTS THEN ErrMinPrice
  ELSE IF input.price_cents > MAX_CENTS THEN ErrMaxPrice
  ELSE IF input.time_window = "SCHEDULED" /\ input.scheduled_at = NULL
       THEN ErrScheduledRequired
  ELSE IF input.time_window = "SCHEDULED" /\ NotInFuture(input.scheduled_at)
       THEN ErrScheduledFuture
  ELSE NULL

\* The call and its first store call: the profile read, then the validation.
createTask(u, input) ==
  /\ Enter(u, "createTask", NULL,
           IF ~profiles[u].accepted_rules THEN ErrRulesPost
           ELSE validateTaskInput(input),
           Call("createTask", "insert", NULL, input, NULL))
  /\ UNCHANGED <<profiles, tasks, messages, blocks, ratings, rcalls, auth>>

createTask_insert(u) ==
  /\ At(u, "createTask", "insert")
  /\ \E t \in TaskIds, fail \in BOOLEAN :
       /\ tasks[t] = NoTask
       /\ IF \/ fail
             \/ ~tasks_constraints(NewTask(u, calls[u].arg))
             \/ ~tasks_insert(u, NewTask(u, calls[u].arg))
          THEN /\ Finish(u, ErrCreateFailed)
               /\ UNCHANGED tasks
          ELSE /\ tasks' = [tasks EXCEPT ![t] = NewTask(u, calls[u].arg)]
               /\ calls' = [calls EXCEPT ![u] = Idle]
               /\ response' = Result(u, "createTask", t, OK)
  /\ UNCHANGED <<profiles, messages, blocks, ratings, rcalls, auth>>

\* ------------------------------------------------------------- updateTask
\* An UpdateTaskInput is a record with some of the fields title,
\* description, price_cents; an absent field is undefined.
Has(input, f) == f \in DOMAIN input

\* input.title && ...: an undefined or empty string is falsy.
Truthy(input, f) == Has(input, f) /\ input[f] # <<>>

\* updateTask's checks without the check of the price.
UpdateTaskCheck_NoPrice(u, task, input) ==
  IF task = NoTask THEN ErrNotFound
  ELSE IF task.poster_id # u THEN ErrEditOwn
  ELSE IF task.status # "OPEN" THEN ErrEditOpen
  ELSE IF Truthy(input, "title") /\ Len(input.title) > MAX_TITLE
       THEN ErrTitleLong
  ELSE IF Truthy(input, "description")
            /\ Len(input.description) > MAX_DESCRIPTION
       THEN ErrDescriptionLong
  ELSE NULL

UpdateTaskCheck(u, task, input) ==
  IF task = NoTask THEN ErrNotFound
  ELSE IF task.poster_id # u THEN ErrEditOwn
  ELSE IF task.status # "OPEN" THEN ErrEditOpen
  ELSE IF Truthy(input, "title") /\ Len(input.title) > MAX_TITLE
       THEN ErrTitleLong
  ELSE IF Truthy(input, "description")
            /\ Len(input.description) > MAX_DESCRIPTION
       THEN ErrDescriptionLong
  ELSE IF Has(input, "price_cents")
            /\ (input.price_cents < MIN_CENTS \/ input.price_cents > MAX_CENTS)
       THEN ErrPriceRange
  ELSE NULL

\* The columns updateTask writes for input.
UpdatePatch(input) ==
  [f \in {g \in {"title", "description"} : Truthy(input, g)}
        \cup {g \in {"price_cents"} : Has(input, g)} |->
     IF f = "price_cents" THEN input[f] ELSE trim(input[f])]

\* The call and its first store call: the task read and the checks on it.
updateTask(u, t, input) ==
  /\ Enter(u, "updateTask", t, UpdateTaskCheck(u, SelectTask(u, t), input),
           Call("updateTask", "update", t, input, NULL))
  /\ UNCHANGED <<profiles, tasks, messages, blocks, ratings, rcalls, auth>>

\* .update({title}).eq('id', taskId).select().single(): no row is an error.
updateTask_update(u) ==
  /\ At(u, "updateTask", "update")
  /\ LET t == calls[u].task
         patch == UpdatePatch(calls[u].arg) IN
     \E fail \in BOOLEAN :
       IF fail \/ UpdateOutcome(u, t, patch, FALSE) # "ok"
       THEN /\ Finish(u, ErrUpdateFailed)
            /\ UNCHANGED tasks
       ELSE /\ tasks' = [tasks EXCEPT ![t] = Apply(tasks[t], patch)]
            /\ Finish(u, OK)
  /\ UNCHANGED <<profiles, messages, blocks, ratings, rcalls, auth>>

\* ------------------------------------------------- system message insert
\* await supabase.from('messages').insert({...}): the handlers do not look at
\* the outcome.  The row is appended when the policy admits it and the store
\* call does not fail.
InsertSystemMessage(u, t, body, fail) ==
  IF fail \/ ~messages_insert(u, t, SystemMessage(u, body))
  THEN UNCHANGED messages
  ELSE /\ Len(messages[t]) < MaxMsgs
       /\ messages' = [messages EXCEPT ![t] = Append(@, SystemMessage(u, body))]

\* The conditional or unconditional status update of a lifecycle handler: only
\* the error of the store call is inspected; an update that matches no row
\* reports no error and the handler goes on to the message insert.
StatusUpdate(u, patch, onlyOpen, err) ==
  LET t == calls[u].task
      outcome == UpdateOutcome(u, t, patch, onlyOpen) IN
  \E fail \in BOOLEAN :
    IF fail \/ outcome = "error"
    THEN /\ Finish(u, err)
         /\ UNCHANGED tasks
    ELSE /\ tasks' = IF outcome = "ok"
                     THEN [tasks EXCEPT ![t] = Apply(tasks[t], patch)]
                     ELSE tasks
         /\ Goto(u, "message", calls[u].loc)

\* ------------------------------------------------------------- acceptTask
\* The call and its first store call: the profile read.
acceptTask(u, t) ==
  /\ Enter(u, "acceptTask", t,
           IF ~profiles[u].accepted_rules THEN ErrRules ELSE NULL,
           Call("acceptTask", "task", t, NULL, NULL))
  /\ UNCHANGED <<profiles, tasks, messages, blocks, ratings, rcalls, auth>>

\* acceptTask without the check that the caller is not the poster.
AcceptTaskCheck_NoOwnTask(u, task) ==
  IF task = NoTask THEN ErrNotFound
  ELSE IF task.status # "OPEN" THEN ErrNotAvailable
  ELSE NULL

AcceptTaskCheck(u, task) ==
  IF task = NoTask THEN ErrNotFound
  ELSE IF task.poster_id = u THEN ErrOwnTask
  ELSE IF task.status # "OPEN" THEN ErrNotAvailable
  ELSE NULL

acceptTask_task(u) ==
  /\ At(u, "acceptTask", "task")
  /\ LET task == SelectTask(u, calls[u].task) IN
       IF AcceptTaskCheck(u, task) # NULL
       THEN Finish(u, AcceptTaskCheck(u, task))
       ELSE Goto(u, "blocked", task.poster_id)
  /\ UNCHANGED <<profiles, tasks, messages, blocks, ratings, rcalls, auth>>

acceptTask_blocked(u) ==
  /\ At(u, "acceptTask", "blocked")
  /\ IF is_blocked(u, calls[u].loc)
     THEN Finish(u, ErrBlocked)
     ELSE Goto(u, "update", NULL)
  /\ UNCHANGED <<profiles, tasks, messages, blocks, ratings, rcalls, auth>>

AcceptPatch(u) ==
  [accepted_by_user_id |-> u, status |-> "ACCEPTED", accepted_at |-> TS]

\* .update({...}).eq('id', taskId).eq('status', 'OPEN')
acceptTask_update(u) ==
  /\ At(u, "acceptTask", "update")
  /\ StatusUpdate(u, AcceptPatch(u), TRUE, ErrAcceptFailed)
  /\ UNCHANGED <<profiles, messages, blocks, ratings, rcalls, auth>>

acceptTask_message(u) ==
  /\ At(u, "acceptTask", "message")
  /\ \E fail \in BOOLEAN : InsertSystemMessage(u, calls[u].task, MsgAccepted, fail)
  /\ Finish(u, OK)
  /\ UNCHANGED <<profiles, tasks, blocks, ratings, rcalls, auth>>

\* ------------------------------------------------------------- cancelTask
\* cancelTask without the check that the task is not already COMPLETE.
CancelTaskCheck_NoComplete(u, task) ==
  LET isPoster == task.poster_id = u
      isWorker == task.accepted_by_user_id = u IN
  IF task = NoTask THEN ErrNotFound
  ELSE IF ~isPoster /\ ~isWorker THEN ErrCannotCancel
  ELSE IF task.status = "CANCELED" THEN ErrAlreadyCanceled
  ELSE IF isWorker /\ task.status # "ACCEPTED" THEN ErrWorkerCancel
  ELSE NULL

CancelTaskCheck(u, task) ==
  LET isPoster == task.poster_id = u
      isWorker == task.accepted_by_user_id = u IN
  IF task = NoTask THEN ErrNotFound
  ELSE IF ~isPoster /\ ~isWorker THEN ErrCannotCancel
  ELSE IF task.status = "COMPLETE" THEN ErrCancelComplete
  ELSE IF task.status = "CANCELED" THEN ErrAlreadyCanceled
  ELSE IF isWorker /\ task.status # "ACCEPTED" THEN ErrWorkerCancel
  ELSE NULL

\* The call and its first store call: the task read and the checks on it.
cancelTask(u, t) ==
  /\ Enter(u, "cancelTask", t, CancelTaskCheck(u, SelectTask(u, t)),
           Call("cancelTask", "update", t, NULL,
                IF SelectTask(u, t).poster_id = u THEN "poster" ELSE "worker"))
  /\ UNCHANGED <<profiles, tasks, messages, blocks, ratings, rcalls, auth>>

CancelPatch == [status |-> "CANCELED", canceled_at |-> TS]

\* .update({...}).eq('id', taskId): no condition on the status.
cancelTask_update(u) ==
  /\ At(u, "cancelTask", "update")
  /\ StatusUpdate(u, CancelPatch, FALSE, ErrCancelFailed)
  /\ UNCHANGED <<profiles, messages, blocks, ratings, rcalls, auth>>

cancelTask_message(u) ==
  /\ At(u, "cancelTask", "message")
  /\ \E fail \in BOOLEAN :
       InsertSystemMessage(u, calls[u].task,
         IF calls[u].loc = "poster" THEN MsgCanceledPoster ELSE MsgCanceledWorker,
         fail)
  /\ Finish(u, OK)
  /\ UNCHANGED <<profiles, tasks, blocks, ratings, rcalls, auth>>

\* ----------------------------------------------------------- completeTask
CompleteTaskCheck(u, task) ==
  IF task = NoTask THEN ErrNotFound
  ELSE IF task.poster_id # u THEN ErrOnlyPoster
  ELSE IF task.status # "ACCEPTED" THEN ErrNotAccepted
  ELSE NULL

\* The call and its first store call: the task read and the checks on it.
completeTask(u, t) ==
  /\ Enter(u, "completeTask", t, CompleteTaskCheck(u, SelectTask(u, t)),
           Call("completeTask", "update", t, NULL, NULL))
  /\ UNCHANGED <<profiles, tasks, messages, blocks, ratings, rcalls, auth>>

CompletePatch == [status |-> "COMPLETE", completed_at |-> TS]

\* .update({...}).eq('id', taskId): no condition on the status.
completeTask_update(u) ==
  /\ At(u, "completeTask", "update")
  /\ StatusUpdate(u, CompletePatch, FALSE, ErrCompleteFailed)
  /\ UNCHANGED <<profiles, messages, blocks, ratings, rcalls, auth>>

completeTask_message(u) ==
  /\ At(u, "completeTask", "message")
  /\ \E fail \in BOOLEAN : InsertSystemMessage(u, calls[u].task, MsgComplete, fail)
  /\ Finish(u, OK)
  /\ UNCHANGED <<profiles, tasks, blocks, ratings, rcalls, auth>>

\* -------------------------------------------------- blockUser, unblockUser
\* The call and its first store call: the read of an existing block row
\* (blocks_read shows the caller their own rows).
existingBlock(u, blockedId) == BagIn(BlockRow(u, blockedId), blocks)

blockUser(u, blockedId) ==
  /\ Enter(u, "blockUser", NULL,
           IF u = blockedId THEN ErrSelfBlock
           ELSE IF existingBlock(u, blockedId) THEN ErrAlreadyBlocked
           ELSE NULL,
           Call("blockUser", "profile", NULL, blockedId, NULL))
  /\ UNCHANGED <<profiles, tasks, messages, blocks, ratings, rcalls, auth>>

\* Every user of the model has a profile row (profiles_read admits all).
blockUser_profile(u) ==
  /\ At(u, "blockUser", "profile")
  /\ IF profiles_read(u, profiles[calls[u].arg]) THEN Goto(u, "insert", NULL)
     ELSE Finish(u, ErrUserNotFound)
  /\ UNCHANGED <<profiles, tasks, messages, blocks, ratings, rcalls, auth>>

\* UNIQUE(blocker_id, blocked_id) and no_self_block reject the insert.
InsertBlock(u, row, fail) ==
  /\ ~fail
  /\ blocks_insert(u, row)
  /\ blocks_constraints(row)

blockUser_insert(u) ==
  /\ At(u, "blockUser", "insert")
  /\ \E fail \in BOOLEAN :
       IF ~InsertBlock(u, BlockRow(u, calls[u].arg), fail)
       THEN /\ Finish(u, ErrBlockFailed)
            /\ UNCHANGED blocks
       ELSE /\ blocks' = blocks (+) SetToBag({BlockRow(u, calls[u].arg)})
            /\ Finish(u, OK)
  /\ UNCHANGED <<profiles, tasks, messages, ratings, rcalls, auth>>

\* unblockUser deleting the rows of the pair in both directions.
unblockUser_BothWays(u, blockedId) ==
  /\ CanCall(u)
  /\ \E fail \in BOOLEAN :
       IF ~auth[u].session
       THEN /\ response' = Result(u, "unblockUser", NULL, ErrNotAuth)
            /\ UNCHANGED blocks
       ELSE IF fail
       THEN /\ response' = Result(u, "unblockUser", NULL, ErrUnblockFailed)
            /\ UNCHANGED blocks
       ELSE /\ blocks' =
                 [r \in DOMAIN blocks \
                    {BlockRow(u, blockedId), BlockRow(blockedId, u)} |->
                    blocks[r]]
            /\ response' = Result(u, "unblockUser", NULL, OK)
  /\ UNCHANGED <<profiles, tasks, messages, calls, ratings, rcalls, auth>>

unblockUser(u, blockedId) ==
  /\ CanCall(u)
  /\ \E fail \in BOOLEAN :
       IF ~auth[u].session
       THEN /\ response' = Result(u, "unblockUser", NULL, ErrNotAuth)
            /\ UNCHANGED blocks
       ELSE IF fail
       THEN /\ response' = Result(u, "unblockUser", NULL, ErrUnblockFailed)
            /\ UNCHANGED blocks
       ELSE /\ blocks' =
                 [r \in DOMAIN blocks \ {BlockRow(u, blockedId)} |->
                    blocks[r]]
            /\ response' = Result(u, "unblockUser", NULL, OK)
  /\ UNCHANGED <<profiles, tasks, messages, calls, ratings, rcalls, auth>>

\* ------------------------------------------------------------ sendMessage
SendMessageCheck(u, task, body) ==
  IF Len(trim(body)) = 0 THEN ErrMessageEmpty
  ELSE IF Len(trim(body)) > MAX_BODY THEN ErrMessageLong
  ELSE IF task = NoTask THEN ErrNotFound
  ELSE IF task.poster_id # u /\ task.accepted_by_user_id # u
       THEN ErrNotParticipant
  ELSE IF task.status = "OPEN" THEN ErrChatOpen
  ELSE IF task.status = "CANCELED" THEN ErrChatCanceled
  ELSE NULL

\* The call, the validation of the body and the first store call: the task
\* read.  The call keeps the trimmed body and the participants it read.
sendMessage(u, t, body) ==
  /\ Enter(u, "sendMessage", t, SendMessageCheck(u, SelectTask(u, t), body),
           Call("sendMessage", "blocked", t, trim(body),
                <<SelectTask(u, t).poster_id,
                  SelectTask(u, t).accepted_by_user_id>>))
  /\ UNCHANGED <<profiles, tasks, messages, blocks, ratings, rcalls, auth>>

\* rpc('is_blocked', {viewer_id: task.poster_id, other_id:
\* task.accepted_by_user_id}) with the participants of the row read before.
sendMessage_blocked(u) ==
  /\ At(u, "sendMessage", "blocked")
  /\ IF is_blocked(calls[u].loc[1], calls[u].loc[2])
     THEN Finish(u, ErrSendBlocked)
     ELSE Goto(u, "insert", calls[u].loc)
  /\ UNCHANGED <<profiles, tasks, messages, blocks, ratings, rcalls, auth>>

\* .insert({...}).select().single(): the row must pass messages_insert and
\* the constraints, and be visible to the caller under messages_read.
sendMessage_insert(u) ==
  /\ At(u, "sendMessage", "insert")
  /\ LET t == calls[u].task
         msg == TextMessage(u, calls[u].arg) IN
     \E fail \in BOOLEAN :
       IF \/ fail
          \/ ~messages_constraints(msg)
          \/ ~messages_insert(u, t, msg)
          \/ ~messages_read(u, t)
       THEN /\ Finish(u, ErrSendFailed)
            /\ UNCHANGED messages
       ELSE /\ Len(messages[t]) < MaxMsgs
            /\ messages' = [messages EXCEPT ![t] = Append(@, msg)]
            /\ Finish(u, OK)
  /\ UNCHANGED <<profiles, tasks, blocks, ratings, rcalls, auth>>

\* ------------------------------------------------------------ getMessages
GetMessagesCheck(u, task) ==
  IF task = NoTask THEN ErrNotFound
  ELSE IF task.poster_id # u /\ task.accepted_by_user_id # u
       THEN ErrNotParticipant
  ELSE NULL

\* The call and its first store call: the task read.
getMessages(u, t) ==
  /\ Enter(u, "getMessages", t, GetMessagesCheck(u, SelectTask(u, t)),
           Call("getMessages", "select", t, NULL, NULL))
  /\ UNCHANGED <<profiles, tasks, messages, blocks, ratings, rcalls, auth>>

\* from('messages').select(...).eq('task_id', t) as uid: the rows that
\* messages_read shows, oldest first.
SelectMessages(uid, t) == IF messages_read(uid, t) THEN messages[t] ELSE <<>>

getMessages_select(u) ==
  /\ At(u, "getMessages", "select")
  /\ \E fail \in BOOLEAN :
       /\ calls' = [calls EXCEPT ![u] = Idle]
       /\ response' =
            IF fail
            THEN Result(u, "getMessages", calls[u].task, ErrLoadFailed)
            ELSE ResultData(u, "getMessages", calls[u].task, OK,
                            SelectMessages(u, calls[u].task))
  /\ UNCHANGED <<profiles, tasks, messages, blocks, ratings, rcalls, auth>>

\* ----------------------------------------------------------- submitRating
SubmitRatingCheck(u, task, input) ==
  IF input.stars < MIN_STARS \/ input.stars > MAX_STARS THEN ErrStars
  ELSE IF input.comment # <<>> /\ Len(input.comment) > MAX_COMMENT
       THEN ErrCommentLong
  ELSE IF task = NoTask THEN ErrNotFound
  ELSE IF task.status # "COMPLETE" THEN ErrRateComplete
  ELSE IF task.poster_id # u /\ task.accepted_by_user_id # u
       THEN ErrNotParticipant
  ELSE IF (IF task.poster_id = u THEN task.accepted_by_user_id
           ELSE task.poster_id) = NULL
       THEN ErrNoRatee
  ELSE NULL

\* const rateeId = isPoster ? task.accepted_by_user_id : task.poster_id
RateeOf(u, task) ==
  IF task.poster_id = u THEN task.accepted_by_user_id ELSE task.poster_id

\* Call c, by user u: the validation and the first store call, the task
\* read.  The call keeps the ratee it inferred from the row it read.
\* Call identifiers are taken in order.
FreeCall(c) ==
  /\ rcalls[c].pc = "idle"
  /\ (c = "r2" => rcalls["r1"].pc # "idle")

submitRating(c, u, t, input) ==
  /\ FreeCall(c)
  /\ LET r == IF ~auth[u].session THEN ErrNotAuth
              ELSE SubmitRatingCheck(u, SelectTask(u, t), input) IN
       IF r # NULL
       THEN /\ response' = Result(u, "submitRating", t, r)
            /\ UNCHANGED rcalls
       ELSE /\ response' = NoResponse
            /\ rcalls' = [rcalls EXCEPT ![c] =
                 [user |-> u, pc |-> "existing", task |-> t, input |-> input,
                  ratee |-> RateeOf(u, SelectTask(u, t))]]
  /\ UNCHANGED <<profiles, tasks, messages, blocks, ratings, calls, auth>>

RFinish(c, result) ==
  /\ rcalls' = [rcalls EXCEPT ![c] = RIdle]
  /\ response' =
       Result(rcalls[c].user, "submitRating", rcalls[c].task, result)

\* from('ratings').select('id').eq('task_id', t).eq('rater_id', user.id)
\* (ratings_read shows every row).
submitRating_existing(c) ==
  /\ rcalls[c].pc = "existing"
  /\ IF \E r \in ratings :
          r.task_id = rcalls[c].task /\ r.rater_id = rcalls[c].user
     THEN RFinish(c, ErrAlreadyRated)
     ELSE /\ rcalls' = [rcalls EXCEPT ![c].pc = "insert"]
          /\ response' = NoResponse
  /\ UNCHANGED <<profiles, tasks, messages, blocks, ratings, calls, auth>>

submitRating_insert(c) ==
  /\ rcalls[c].pc = "insert"
  /\ LET row == NewRating(c, rcalls[c].user, rcalls[c].task, rcalls[c].ratee,
                          rcalls[c].input) IN
     \E fail \in BOOLEAN :
       IF \/ fail
          \/ ~ratings_constraints(row)
          \/ ~ratings_insert(rcalls[c].user, row)
       THEN /\ RFinish(c, ErrRatingFailed)
            /\ UNCHANGED ratings
       ELSE /\ ratings' = ratings \cup {row}
            /\ RFinish(c, OK)
  /\ UNCHANGED <<profiles, tasks, messages, blocks, calls, auth>>

\* ------------------------------------------- getTasks, getTask, getMyTasks
\* The ids of the rows of table tasks that uid may read.
TaskRows(uid) ==
  {t \in TaskIds : tasks[t] # NoTask /\ tasks_read(uid, tasks[t])}

\* A query result, represented by the ids of its rows.  The model keeps no
\* creation time: the rows are listed in one fixed order.
RECURSIVE Rows(_)
Rows(S) ==
  IF S = {} THEN <<>>
  ELSE LET t == CHOOSE x \in S : TRUE IN <<t>> \o Rows(S \ {t})

Limit(rows, n) == SubSeq(rows, 1, IF Len(rows) < n THEN Len(rows) ELSE n)

\* The feed query: .in('status', ['OPEN', 'ACCEPTED']) and the filters that
\* are set ("ALL" and 0 stand for a filter that is not set).
Feed(uid, filters) ==
  {t \in TaskRows(uid) :
     /\ tasks[t].status \in {"OPEN", "ACCEPTED"}
     /\ (filters.category # "ALL" => tasks[t].category = filters.category)
     /\ (filters.timeWindow # "ALL" =>
           tasks[t].time_window = filters.timeWindow)
     /\ (filters.minPrice # 0 => tasks[t].price_cents >= filters.minPrice)}

getTasks(u, filters) ==
  /\ CanCall(u)
  /\ \E fail \in BOOLEAN :
       response' =
         IF fail THEN Result(u, "getTasks", NULL, ErrLoadTasks)
         ELSE ResultData(u, "getTasks", NULL, OK,
                         Limit(Rows(Feed(u, filters)), FEED_LIMIT))
  /\ UNCHANGED <<profiles, tasks, messages, blocks, ratings, calls, rcalls,
               auth>>

RECURSIVE SumStars(_)
SumStars(S) ==
  IF S = {} THEN 0
  ELSE LET r == CHOOSE x \in S : TRUE IN r.stars + SumStars(S \ {r})

\* rpc get_user_rating: ROUND(AVG(stars), 1), in tenths of a star, and
\* COUNT(*) over the ratings of the user; no data when the rpc fails.
get_user_rating(user_id, fail) ==
  LET of == {r \in ratings : r.ratee_id = user_id} IN
  IF fail THEN NULL
  ELSE [avg |-> IF of = {} THEN NULL
                ELSE (2 * 10 * SumStars(of) + Cardinality(of))
                       \div (2 * Cardinality(of)),
        count |-> Cardinality(of)]

\* The call and its first store call: the task read.
getTask(u, t) ==
  /\ \E fail \in BOOLEAN :
       EnterAnon(u, "getTask", t,
             IF fail \/ SelectTask(u, t) = NoTask THEN ErrNotFound ELSE NULL,
             Call("getTask", "poster_rating", t, NULL,
                  [task |-> SelectTask(u, t), poster_rating |-> NULL]))
  /\ UNCHANGED <<profiles, tasks, messages, blocks, ratings, rcalls, auth>>

\* The result carries the row that the first store call read.
TaskWithDetails(t, loc, acceptedByRating) ==
  [id |-> t, task |-> loc.task, poster_rating |-> loc.poster_rating,
   accepted_by_rating |-> acceptedByRating]

getTask_poster_rating(u) ==
  /\ At(u, "getTask", "poster_rating")
  /\ \E fail \in BOOLEAN :
       LET loc == [calls[u].loc EXCEPT !.poster_rating =
                     get_user_rating(calls[u].loc.task.poster_id, fail)] IN
       IF calls[u].loc.task.accepted_by_user_id # NULL
       THEN Goto(u, "accepted_by_rating", loc)
       ELSE /\ calls' = [calls EXCEPT ![u] = Idle]
            /\ response' = ResultData(u, "getTask", calls[u].task, OK,
                             TaskWithDetails(calls[u].task, loc, NULL))
  /\ UNCHANGED <<profiles, tasks, messages, blocks, ratings, rcalls, auth>>

getTask_accepted_by_rating(u) ==
  /\ At(u, "getTask", "accepted_by_rating")
  /\ \E fail \in BOOLEAN :
       /\ calls' = [calls EXCEPT ![u] = Idle]
       /\ response' =
            ResultData(u, "getTask", calls[u].task, OK,
              TaskWithDetails(calls[u].task, calls[u].loc,
                get_user_rating(calls[u].loc.task.accepted_by_user_id, fail)))
  /\ UNCHANGED <<profiles, tasks, messages, blocks, ratings, rcalls, auth>>

\* The call and its first store call: the tasks the caller posted.  A failed
\* query is logged only and gives no rows.
getMyTasks(u) ==
  /\ \E fail \in BOOLEAN :
       Enter(u, "getMyTasks", NULL, NULL,
             Call("getMyTasks", "accepted", NULL, NULL,
                  IF fail THEN <<>>
                  ELSE Rows({t \in TaskRows(u) : tasks[t].poster_id = u})))
  /\ UNCHANGED <<profiles, tasks, messages, blocks, ratings, rcalls, auth>>

getMyTasks_accepted(u) ==
  /\ At(u, "getMyTasks", "accepted")
  /\ \E fail \in BOOLEAN :
       /\ calls' = [calls EXCEPT ![u] = Idle]
       /\ response' =
            ResultData(u, "getMyTasks", NULL, OK,
              [posted |-> calls[u].loc,
               accepted |->
                 IF fail THEN <<>>
                 ELSE Rows({t \in TaskRows(u) :
                              tasks[t].accepted_by_user_id = u})])
  /\ UNCHANGED <<profiles, tasks, messages, blocks, ratings, rcalls, auth>>

\* ------------------------------------------------ direct access to the store
\* The browser client (src/lib/supabase/client.ts) talks to the store with the
\* same anon key and session; a signed-in user can send
\* from('tasks').update(patch).eq('id', t) without going through a handler.
\* Only the row-security policy stands between such a request and the row.
AssignPatches == {[accepted_by_user_id |-> a] : a \in Assignees}

ClientPatches ==
  {[accepted_by_user_id |-> a] : a \in Users \cup {NULL}}
    \cup {[status |-> s] : s \in Statuses}
    \cup {[title |-> x] : x \in Titles}

ClientUpdateTask(u, t, patch) ==
  /\ UpdateOutcome(u, t, patch, FALSE) = "ok"
  /\ Apply(tasks[t], patch) # tasks[t]
  /\ tasks' = [tasks EXCEPT ![t] = Apply(tasks[t], patch)]
  /\ response' = NoResponse
  /\ UNCHANGED <<profiles, messages, blocks, calls, ratings, rcalls, auth>>

\* from('blocks').insert(row) as u, sent by the browser client or by another
\* blockUser call of the same user that has passed its checks.
ClientInsertBlock(u, row) ==
  /\ InsertBlock(u, row, FALSE)
  /\ blocks' = blocks (+) SetToBag({row})
  /\ response' = NoResponse
  /\ UNCHANGED <<profiles, tasks, messages, calls, ratings, rcalls, auth>>

\* ------------------------------------------------------------------- Next
Next ==
  \E u \in Users :
    \/ \E userId \in Users : acceptRules(u, userId)
    \/ (u \in Posters /\ \E x \in NewInputs : createTask(u, x))
    \/ createTask_insert(u)
    \/ \E t \in TaskIds, x \in Edits : updateTask(u, t, x)
    \/ updateTask_update(u)
    \/ \E t \in TaskIds : acceptTask(u, t)
    \/ acceptTask_task(u)
    \/ acceptTask_blocked(u)
    \/ acceptTask_update(u)
    \/ acceptTask_message(u)
    \/ \E t \in TaskIds : cancelTask(u, t)
    \/ cancelTask_update(u)
    \/ cancelTask_message(u)
    \/ \E t \in TaskIds : completeTask(u, t)
    \/ completeTask_update(u)
    \/ completeTask_message(u)
    \/ \E b \in Users : <<u, b>> \in BlockPairs /\ blockUser(u, b)
    \/ blockUser_profile(u)
    \/ blockUser_insert(u)
    \/ \E b \in Users : <<u, b>> \in BlockPairs /\ unblockUser(u, b)
    \/ \E t \in TaskIds, p \in AssignPatches : ClientUpdateTask(u, t, p)

Spec == Init /\ [][Next]_vars

\* ---------------------------------------------- direct writes only
\* The store as seen by clients that do not go through the lifecycle
\* handlers: tasks are created by createTask, every later write is a direct
\* update admitted by tasks_update.
NextClient ==
  \E u \in Users :
    \/ \E userId \in Users : acceptRules(u, userId)
    \/ (u \in Posters /\ \E x \in NewInputs : createTask(u, x))
    \/ createTask_insert(u)
    \/ \E t \in TaskIds, p \in ClientPatches : ClientUpdateTask(u, t, p)

SpecClient == Init /\ [][NextClient]_vars

\* ------------------------------------------------------------- the chat
\* The texts a caller sends: plain, empty, blank, padded, over-long.
Bodies == {<<"h">>, <<>>, <<" ">>, <<" ", "h">>, Long(MAX_BODY + 1)}

\* The task is taken through its statuses by the writes that tasks_update
\* admits: the acceptor is entered by the poster, and the status is written
\* by the acceptor or the poster, as the update statements of acceptTask,
\* completeTask and cancelTask write it.
ChatPatches ==
  AssignPatches
    \cup {[status |-> x] : x \in {"ACCEPTED", "COMPLETE", "CANCELED"}}

\* Poster and acceptor block each other in both directions.
ChatBlockPairs == {<<"u1", "u2">>, <<"u2", "u1">>}

NextMessages ==
  \E u \in Users :
    \/ (u \in Posters \cup Assignees
          /\ \E userId \in Users : acceptRules(u, userId))
    \/ (u \in Posters /\ \E x \in NewInputs : createTask(u, x))
    \/ createTask_insert(u)
    \/ \E b \in Users : <<u, b>> \in ChatBlockPairs /\ blockUser(u, b)
    \/ blockUser_profile(u)
    \/ blockUser_insert(u)
    \/ \E b \in Users : <<u, b>> \in ChatBlockPairs /\ unblockUser(u, b)
    \/ \E t \in TaskIds, p \in ChatPatches : ClientUpdateTask(u, t, p)
    \/ \E t \in TaskIds, x \in Bodies : sendMessage(u, t, x)
    \/ sendMessage_blocked(u)
    \/ sendMessage_insert(u)
    \/ \E t \in TaskIds : getMessages(u, t)
    \/ getMessages_select(u)

SpecMessages == Init /\ [][NextMessages]_vars

\* The chat next to cancelTask.  The task becomes ACCEPTED by the writes of
\* an acceptance (the poster enters the acceptor, the acceptor writes the
\* status) and CANCELED by cancelTask alone.
AcceptPatches == AssignPatches \cup {[status |-> "ACCEPTED"]}

NextChat ==
  \E u \in Users :
    \/ (u \in Posters \cup Assignees
          /\ \E userId \in Users : acceptRules(u, userId))
    \/ (u \in Posters /\ \E x \in NewInputs : createTask(u, x))
    \/ createTask_insert(u)
    \/ \E t \in TaskIds : cancelTask(u, t)
    \/ cancelTask_update(u)
    \/ cancelTask_message(u)
    \/ \E t \in TaskIds, p \in AcceptPatches : ClientUpdateTask(u, t, p)
    \/ \E t \in TaskIds, x \in Bodies : sendMessage(u, t, x)
    \/ sendMessage_blocked(u)
    \/ sendMessage_insert(u)
    \/ \E t \in TaskIds : getMessages(u, t)
    \/ getMessages_select(u)

SpecChat == Init /\ [][NextChat]_vars

\* -------------------------------------------------------------- ratings
Stars == {MIN_STARS - 1, MIN_STARS, MAX_STARS, MAX_STARS + 1}

RatingInputs ==
  {[stars |-> n, comment |-> <<>>] : n \in Stars}
    \cup {[stars |-> MAX_STARS, comment |-> Long(MAX_COMMENT + 1)]}

\* The task is taken to COMPLETE, and its acceptor is entered and removed,
\* by the writes that tasks_update admits.
RatingPatches ==
  {[accepted_by_user_id |-> a] : a \in Assignees \cup {NULL}}
    \cup {[status |-> x] : x \in {"ACCEPTED", "COMPLETE"}}

NextRatings ==
  \/ \E u \in Users :
       \/ (u \in Posters \cup Assignees
             /\ \E userId \in Users : acceptRules(u, userId))
       \/ (u \in Posters /\ \E x \in NewInputs : createTask(u, x))
       \/ createTask_insert(u)
       \/ \E t \in TaskIds, p \in RatingPatches : ClientUpdateTask(u, t, p)
       \/ \E c \in RatingCalls, t \in TaskIds, x \in RatingInputs :
            submitRating(c, u, t, x)
  \/ \E c \in RatingCalls :
       \/ submitRating_existing(c)
       \/ submitRating_insert(c)

SpecRatings == Init /\ [][NextRatings]_vars

\* --------------------------------------------------- blocks and visibility
\* The block rows a client tries to insert: for another user, for itself,
\* in another user's name.
BlockRows == {BlockRow(a, b) : a, b \in Users}

\* One filter at a time.
TaskFilters ==
  {[category |-> "ALL", timeWindow |-> "ALL", minPrice |-> 0],
   [category |-> "OTHER", timeWindow |-> "ALL", minPrice |-> 0],
   [category |-> "ALL", timeWindow |-> "SCHEDULED", minPrice |-> 0],
   [category |-> "ALL", timeWindow |-> "ALL", minPrice |-> MIN_CENTS + 1]}

NextBlocks ==
  \E u \in Users :
    \/ \E b \in Users : blockUser(u, b)
    \/ blockUser_profile(u)
    \/ blockUser_insert(u)
    \/ \E b \in Users : unblockUser(u, b)
    \/ \E row \in BlockRows : ClientInsertBlock(u, row)

SpecBlocks == Init /\ [][NextBlocks]_vars

\* The feed and the task pages, read while participants and viewers block
\* and unblock each other and the task is taken through its statuses: the
\* acceptor blocks the poster, a viewer blocks the poster, the acceptor blocks
\* a viewer.
FeedBlockPairs == {<<"u2", "u1">>, <<"u3", "u1">>, <<"u2", "u3">>}

NextFeed ==
  \E u \in Users :
    \/ (u \in Posters /\ \E userId \in Users : acceptRules(u, userId))
    \/ (u \in Posters /\ \E x \in NewInputs : createTask(u, x))
    \/ createTask_insert(u)
    \/ \E t \in TaskIds, p \in ChatPatches : ClientUpdateTask(u, t, p)
    \/ \E b \in Users : <<u, b>> \in FeedBlockPairs /\ unblockUser(u, b)
    \/ \E b \in Users :
         <<u, b>> \in FeedBlockPairs /\ ClientInsertBlock(u, BlockRow(u, b))
    \/ \E f \in TaskFilters : getTasks(u, f)
    \/ \E t \in TaskIds : getTask(u, t)
    \/ getTask_poster_rating(u)
    \/ getTask_accepted_by_rating(u)
    \/ getMyTasks(u)
    \/ getMyTasks_accepted(u)

SpecFeed == Init /\ [][NextFeed]_vars

\* ------------------------------------------------------ the catch blocks
\* What a statement of a try block throws.
Exception == "exception"

\* A catch block that lets the exception through to the caller.
catch_Rethrow(error) == error

\* } catch (error) { console.error(...); return { success: false, error:
\* 'Something went wrong' } }, the same in every handler.
catch(error) == ErrWentWrong

HandlerOps ==
  {"createTask", "updateTask", "acceptTask", "cancelTask", "completeTask",
   "sendMessage", "getMessages", "submitRating", "blockUser", "unblockUser",
   "acceptRules"}

\* The handlers the worker calls in SpecResult; the poster calls the others.
WorkerOps == {"acceptTask", "sendMessage", "submitRating"}

\* createClient() or auth.getUser() of handler op throws.
throw_entry(u, op) ==
  /\ CanCall(u)
  /\ response' = Result(u, op, NULL, catch(Exception))
  /\ UNCHANGED <<profiles, tasks, messages, blocks, ratings, calls, rcalls,
               auth>>

\* The store call at which the call of u waits throws.
throw(u) ==
  /\ Running(u)
  /\ Finish(u, catch(Exception))
  /\ UNCHANGED <<profiles, tasks, messages, blocks, ratings, rcalls, auth>>

submitRating_throw(c) ==
  /\ rcalls[c].pc # "idle"
  /\ RFinish(c, catch(Exception))
  /\ UNCHANGED <<profiles, tasks, messages, blocks, ratings, calls, auth>>

\* The next store call of the handler call of u: it returns, or goes on to
\* the call after it.
Continue(u) ==
  \/ createTask_insert(u)
  \/ updateTask_update(u)
  \/ acceptTask_task(u)
  \/ acceptTask_blocked(u)
  \/ acceptTask_update(u)
  \/ acceptTask_message(u)
  \/ cancelTask_update(u)
  \/ cancelTask_message(u)
  \/ completeTask_update(u)
  \/ completeTask_message(u)
  \/ sendMessage_blocked(u)
  \/ sendMessage_insert(u)
  \/ getMessages_select(u)
  \/ blockUser_profile(u)
  \/ blockUser_insert(u)

submitRating_Continue(c) ==
  submitRating_existing(c) \/ submitRating_insert(c)

\* One poster and one worker call every handler once the poster has entered
\* the worker as acceptor; every store call may fail or throw.  Tasks are
\* created while the model has an id left for them.
NextResult ==
  \/ \E u \in Posters \cup Assignees :
       \/ acceptRules(u, u)
       \/ throw_entry(u, "acceptRules")
       \/ throw(u)
       \/ Continue(u)
  \/ \E u \in Posters :
       \/ ((\E t \in TaskIds : tasks[t] = NoTask)
             /\ \E x \in NewInputs : createTask(u, x))
       \/ \E t \in TaskIds, x \in NewTitles : updateTask(u, t, [title |-> x])
       \/ \E t \in TaskIds : cancelTask(u, t)
       \/ \E t \in TaskIds : completeTask(u, t)
       \/ \E t \in TaskIds : getMessages(u, t)
       \/ \E b \in Assignees : blockUser(u, b)
       \/ \E b \in Assignees : unblockUser(u, b)
       \/ \E op \in HandlerOps \ WorkerOps : throw_entry(u, op)
       \/ \E t \in TaskIds, a \in Assignees :
            ClientUpdateTask(u, t, [accepted_by_user_id |-> a])
  \/ \E u \in Assignees :
       \/ \E t \in TaskIds : acceptTask(u, t)
       \/ \E t \in TaskIds : sendMessage(u, t, <<"h">>)
       \/ \E t \in TaskIds :
            submitRating("r1", u, t, [stars |-> MAX_STARS, comment |-> <<>>])
       \/ \E op \in WorkerOps : throw_entry(u, op)
  \/ submitRating_Continue("r1")
  \/ submitRating_throw("r1")

\* A handler call is a chain of awaits: a call in flight is resumed when its
\* store call settles.
SpecResult ==
  /\ Init
  /\ [][NextResult]_vars
  /\ \A u \in Posters \cup Assignees : WF_vars(Continue(u))
  /\ WF_vars(submitRating_Continue("r1"))

\* ------------------------------------------------- login and profiles
\* The addresses of the visitors: a campus address, a campus address in
\* capitals, and an address of another domain or of a subdomain.
ForeignEmails ==
  {<<"c", "@", "x", ".", "c", "o">>,
   <<"c", "@", "m", ".", "u", "c", "i", ".", "e", "d", "u">>}

CampusCaps == <<"B", "@", "U", "C", "I", ".", "E", "D", "U">>

\* Nobody has logged in yet.
InitAuth ==
  /\ \E e \in ForeignEmails :
       auth =
         [u \in Users |->
            [email |-> IF u = "u1" THEN UserEmail[u]
                       ELSE IF u = "u2" THEN CampusCaps ELSE e,
             session |-> FALSE]]
  /\ profiles = [u \in Users |-> NoProfile]
  /\ tasks = [t \in TaskIds |-> NoTask]
  /\ messages = [t \in TaskIds |-> <<>>]
  /\ blocks = EmptyBag
  /\ ratings = {}
  /\ calls = [u \in Users |-> Idle]
  /\ rcalls = [c \in RatingCalls |-> RIdle]
  /\ response = NoResponse

\* The display names a caller sends: plain, padded, over-long.
Names == {<<"n">>, <<" ", "n">>, Long(MAX_NAME + 1)}

\* The columns a client writes directly, and the rows it inserts.
ProfilePatches ==
  {[accepted_rules |-> b] : b \in BOOLEAN}
    \cup {[email |-> e] : e \in ForeignEmails \cup {<<"z">> \o Domain}}
    \cup {[display_name |-> Long(MAX_NAME + 1)]}

ProfileRows ==
  {NewProfile(i, e) : i \in Users, e \in ForeignEmails \cup {<<"z">> \o Domain}}

NextAuth ==
  \E u \in Users :
    \/ GET(u)
    \/ GET_signOut(u)
    \/ GET_upsert(u)
    \/ GET_profile(u)
    \/ signOut(u)
    \/ \E userId \in Users : acceptRules(u, userId)
    \/ \E n \in Names : updateDisplayName(u, n)
    \/ \E p \in ProfilePatches : ClientUpdateProfile(u, p)
    \/ \E row \in ProfileRows : ClientInsertProfile(u, row)

SpecAuth == InitAuth /\ [][NextAuth]_vars

\* ----------------------------------------------- calls without a session
\* Users sign out, and the mutation handlers are called with and without a
\* session.  createTask, blockUser, unblockUser and acceptRules run through
\* for every caller; the handlers of an existing task are called here by
\* users who have signed out (their calls with a session make up Spec,
\* SpecMessages and SpecRatings).
NextAnon ==
  \/ \E u \in Users :
       \/ signOut(u)
       \/ \E userId \in Users : acceptRules(u, userId)
       \/ (u \in Posters /\ \E x \in NewInputs : createTask(u, x))
       \/ createTask_insert(u)
       \/ \E b \in Users : <<u, b>> \in ChatBlockPairs /\ blockUser(u, b)
       \/ blockUser_profile(u)
       \/ blockUser_insert(u)
       \/ \E b \in Users : <<u, b>> \in ChatBlockPairs /\ unblockUser(u, b)
       \/ (~auth[u].session /\ \E t \in TaskIds, x \in Edits : updateTask(u, t, x))
       \/ (~auth[u].session /\ \E t \in TaskIds : acceptTask(u, t))
       \/ (~auth[u].session /\ \E t \in TaskIds : cancelTask(u, t))
       \/ (~auth[u].session /\ \E t \in TaskIds : completeTask(u, t))
       \/ (~auth[u].session
             /\ \E t \in TaskIds, x \in Bodies : sendMessage(u, t, x))
       \/ (~auth[u].session
             /\ \E c \in RatingCalls, t \in TaskIds, x \in RatingInputs :
                  submitRating(c, u, t, x))

SpecAnon == Init /\ [][NextAnon]_vars

\* ------------------------------------------------ creation and editing
\* Direct writes of the columns that createTask validates.
FieldPatches ==
  {[price_cents |-> p] : p \in Prices}
    \cup {[scheduled_at |-> x] : x \in {NULL, FUTURE}}
    \cup {[time_window |-> w] : w \in {"NOW", "SCHEDULED"}}

NextCreate ==
  \E u \in Users :
    \/ \E userId \in Users : acceptRules(u, userId)
    \/ (u \in Posters /\ \E x \in CreateInputs : createTask(u, x))
    \/ createTask_insert(u)
    \/ \E t \in TaskIds, x \in EditInputs : updateTask(u, t, x)
    \/ updateTask_update(u)
    \/ \E t \in TaskIds, p \in FieldPatches : ClientUpdateTask(u, t, p)

SpecCreate == Init /\ [][NextCreate]_vars

\* =================================================================== claims
LegalTransitions ==
  {<<"OPEN", "ACCEPTED">>, <<"OPEN", "CANCELED">>,
   <<"ACCEPTED", "COMPLETE">>, <<"ACCEPTED", "CANCELED">>}

\* User u calls handler op on task t in this step (the step is the handler's
\* first store call).
Entering(u, op, t) ==
  /\ calls[u] = Idle
  /\ \/ calls'[u].op = op /\ calls'[u].task = t
     \/ response'.user = u /\ response'.op = op /\ response'.task = t

\* User u's call of handler op takes the step at pc.
Stepping(u, op, pc) ==
  /\ calls[u].op = op
  /\ calls[u].pc = pc
  /\ calls'[u] # calls[u]

\* The step returns a failure of handler op to user u.
Fails(u, op) ==
  /\ response'.user = u
  /\ response'.op = op
  /\ response'.result # OK
  /\ calls'[u] = Idle

Succeeded(op) == response.op = op /\ response.result = OK

NumMessages(t, bodies) ==
  Cardinality({i \in 1..Len(messages[t]) :
                 /\ messages[t][i].type = "SYSTEM"
                 /\ messages[t][i].body \in bodies})

\* No call of a lifecycle handler on task t is in flight.
Quiet(t) ==
  \A u \in Users :
    ~(calls[u].task = t /\ calls[u].op \in {"acceptTask", "cancelTask", "completeTask"})

\* User u's acceptTask call on task t has passed the handler's checks (rules
\* accepted, not the poster, task OPEN): u is an eligible worker racing for t.
Racing(u, t) ==
  /\ calls[u].op = "acceptTask"
  /\ calls[u].task = t
  /\ calls[u].pc \in {"blocked", "update", "message"}

\* C1: of the acceptTask calls that distinct eligible workers make
\* concurrently on one OPEN task exactly one returns success: when a worker
\* has received success while another worker's call is racing for the same
\* task, the stored acceptor is the worker that received success, and the
\* other call has not passed its conditional update without an error (from
\* where it returns success as well).
C1_AcceptExclusive ==
  Succeeded("acceptTask") =>
    \A u \in Users \ {response.user} :
      Racing(u, response.task)
        => /\ tasks[response.task].accepted_by_user_id = response.user
           /\ calls[u].pc # "message"

\* C2: every change of a task's status is one of OPEN->ACCEPTED,
\* OPEN->CANCELED, ACCEPTED->COMPLETE, ACCEPTED->CANCELED; in particular a
\* COMPLETE or CANCELED task never changes its status again.
C2_LegalTransitions ==
  [][\A t \in TaskIds :
       (tasks[t] # NoTask /\ tasks'[t].status # tasks[t].status)
         => <<tasks[t].status, tasks'[t].status>> \in LegalTransitions]_vars

\* C3: when acceptTask returns success the caller is the stored acceptor, the
\* task has left OPEN through ACCEPTED and accepted_at is set; and, once no
\* lifecycle call is in flight on it, a task carries exactly one 'Task
\* accepted' message if it has been accepted and none otherwise.
C3_AcceptEffect ==
  /\ Succeeded("acceptTask") =>
       /\ tasks[response.task].accepted_by_user_id = response.user
       /\ tasks[response.task].status # "OPEN"
       /\ tasks[response.task].accepted_at # NULL
  /\ \A t \in TaskIds :
       Quiet(t) =>
         NumMessages(t, {MsgAccepted}) = IF tasks[t].accepted_at # NULL THEN 1 ELSE 0

\* The checks of acceptTask on the task row (C4): the row is missing,
\* the caller is the poster, the status is not OPEN, or a block exists in
\* either direction between caller and poster.
AcceptRefused(u, t) ==
  \/ tasks[t] = NoTask
  \/ tasks[t].poster_id = u
  \/ tasks[t].status # "OPEN"
  \/ is_blocked(u, tasks[t].poster_id)

StoreUnchanged == tasks' = tasks /\ messages' = messages

C5_CompleteGuarded ==
  [][\A u \in Users :
       /\ \A t \in TaskIds :
            Entering(u, "completeTask", t) =>
              /\ StoreUnchanged
              /\ (tasks[t].poster_id # u \/ tasks[t].status # "ACCEPTED")
                   => Fails(u, "completeTask")
       /\ (Stepping(u, "completeTask", "update") /\ ~Fails(u, "completeTask")) =>
              /\ tasks[calls[u].task].poster_id = u
              /\ tasks[calls[u].task].status = "ACCEPTED"
              /\ tasks'[calls[u].task].status = "COMPLETE"
              /\ tasks'[calls[u].task].completed_at # NULL]_vars

\* Who may cancel (C6): the poster while OPEN or ACCEPTED, the acceptor while
\* ACCEPTED.
MayCancel(u, t) ==
  \/ tasks[t].poster_id = u /\ tasks[t].status \in {"OPEN", "ACCEPTED"}
  \/ tasks[t].accepted_by_user_id = u /\ tasks[t].status = "ACCEPTED"

\* C6: cancelTask succeeds exactly when the caller is the poster of an OPEN or
\* ACCEPTED task or the acceptor of an ACCEPTED task: such a call is not
\* refused by the handler's checks, any other call fails; the update of a call
\* that goes on to return success leaves the task CANCELED with canceled_at
\* set, and the message it appends names the poster or the worker.
C6_CancelGuarded ==
  [][\A u \in Users :
       /\ \A t \in TaskIds :
            Entering(u, "cancelTask", t) =>
              (MayCancel(u, t) <=> ~Fails(u, "cancelTask"))
       /\ (Stepping(u, "cancelTask", "update") /\ ~Fails(u, "cancelTask")) =>
              /\ tasks'[calls[u].task].status = "CANCELED"
              /\ tasks'[calls[u].task].canceled_at # NULL
       /\ (Stepping(u, "cancelTask", "message") /\ messages' # messages) =>
              messages'[calls[u].task] =
                Append(messages[calls[u].task],
                  SystemMessage(u, IF tasks[calls[u].task].poster_id = u
                                   THEN MsgCanceledPoster
                                   ELSE MsgCanceledWorker))]_vars

\* C7: cancelTask called on a COMPLETE or CANCELED task returns a failure and
\* changes neither the task rows nor the messages.
C7_CancelTerminal ==
  [][\A u \in Users, t \in TaskIds :
       (Entering(u, "cancelTask", t) /\ tasks[t].status \in Terminal)
         => Fails(u, "cancelTask") /\ StoreUnchanged]_vars

C7_Witness ==
  /\ response.op = "cancelTask"
  /\ response.result \in {ErrCancelComplete, ErrAlreadyCanceled}
  /\ tasks[response.task].status \in Terminal
  /\ response.user \in {tasks[response.task].poster_id,
                        tasks[response.task].accepted_by_user_id}

\* C8: a task's title changes only at a moment when its status is OPEN.
C8_EditOnlyOpen ==
  [][\A t \in TaskIds :
       (tasks[t] # NoTask /\ tasks'[t].title # tasks[t].title)
         => tasks[t].status = "OPEN"]_vars

\* C9: status update and system message take effect as a unit: once no
\* lifecycle call is in flight on a task, the task has made a transition
\* (its timestamp is set) if and only if the corresponding system message
\* has been appended.
C9_NoPartialSuccess ==
  \A t \in TaskIds :
    Quiet(t) =>
      /\ tasks[t].accepted_at # NULL <=> NumMessages(t, {MsgAccepted}) > 0
      /\ tasks[t].completed_at # NULL <=> NumMessages(t, {MsgComplete}) > 0
      /\ tasks[t].canceled_at # NULL
           <=> NumMessages(t, {MsgCanceledPoster, MsgCanceledWorker}) > 0

\* C10: an update of a task row that tasks_update admits is a change the
\* lifecycle handlers allow: it does not change the status of a COMPLETE or
\* CANCELED task, changes the status only along OPEN->ACCEPTED,
\* OPEN->CANCELED, ACCEPTED->COMPLETE, ACCEPTED->CANCELED, does not replace an
\* existing acceptor, and changes the title only of an OPEN task.
C10_PolicyMirrorsHandlers ==
  [][\A t \in TaskIds :
       (tasks[t] # NoTask /\ tasks'[t] # tasks[t]) =>
         /\ tasks'[t].status # tasks[t].status
              => <<tasks[t].status, tasks'[t].status>> \in LegalTransitions
         /\ tasks[t].accepted_by_user_id # NULL
              => tasks'[t].accepted_by_user_id = tasks[t].accepted_by_user_id
         /\ tasks'[t].title # tasks[t].title => tasks[t].status = "OPEN"]_vars

\* ------------------------------------------------------ creation, editing
\* The input keeps every bound of the creation contract: texts non-empty
\* after trimming and within their lengths, the price within the band, and a
\* SCHEDULED window with a timestamp in the future.
Acceptable(input) ==
  /\ Len(trim(input.title)) >= 1 /\ Len(input.title) <= MAX_TITLE
  /\ Len(trim(input.description)) >= 1
  /\ Len(input.description) <= MAX_DESCRIPTION
  /\ Len(trim(input.location_text)) >= 1
  /\ Len(input.location_text) <= MAX_LOCATION
  /\ input.price_cents >= MIN_CENTS /\ input.price_cents <= MAX_CENTS
  /\ input.time_window = "SCHEDULED" => input.scheduled_at = FUTURE

FreshRow(row, u) ==
  /\ row.poster_id = u
  /\ row.status = "OPEN"
  /\ row.accepted_by_user_id = NULL
  /\ row.accepted_at = NULL
  /\ row.completed_at = NULL
  /\ row.canceled_at = NULL

C12_ScheduledIff ==
  \A t \in TaskIds :
    tasks[t] # NoTask =>
      (tasks[t].scheduled_at # NULL <=> tasks[t].time_window = "SCHEDULED")

OutOfBand(p) == p < MIN_CENTS \/ p > MAX_CENTS

CreateOutOfBand == {x \in CreateInputs : OutOfBand(x.price_cents)}

EditOutOfBand ==
  {x \in EditInputs : Has(x, "price_cents") /\ OutOfBand(x.price_cents)}

\* C13: every task's price_cents lies in [500, 50000] after every step, and
\* a createTask or updateTask call with a price outside the band returns a
\* failure at once and leaves the tasks unchanged.
C13_PriceBand ==
  [][/\ \A t \in TaskIds :
          tasks'[t] # NoTask => ~OutOfBand(tasks'[t].price_cents)
     /\ \A u \in Users :
          /\ \A x \in CreateOutOfBand :
               createTask(u, x) => Fails(u, "createTask") /\ tasks' = tasks
          /\ \A t \in TaskIds, x \in EditOutOfBand :
               updateTask(u, t, x)
                 => Fails(u, "updateTask") /\ tasks' = tasks]_vars

C13_Witness ==
  /\ response.op = "updateTask"
  /\ response.result = ErrPriceRange
  /\ tasks[response.task].poster_id = response.user
  /\ tasks[response.task].status = "OPEN"

\* ---------------------------------------------------------------- the chat
Participant(u, t) ==
  /\ tasks[t] # NoTask
  /\ (tasks[t].poster_id = u \/ tasks[t].accepted_by_user_id = u)

ChatOpen(t) == tasks[t].status \in {"ACCEPTED", "COMPLETE"}

\* The step appends row msg to the messages of task t.
Appends(t, msg) == messages'[t] = Append(messages[t], msg)

\* C14: a TEXT message is appended only for a sender who is the task's poster
\* or current acceptor, on a task that is ACCEPTED or COMPLETE at that
\* moment, with a trimmed body of 1 to 2000 characters; a sendMessage call
\* that finds, at its task read, a non-participant caller, an OPEN or
\* CANCELED task or an empty or over-long body fails and appends nothing.
C14_SendGuarded ==
  [][\A u \in Users, t \in TaskIds :
       /\ (Stepping(u, "sendMessage", "insert") /\ calls[u].task = t
             /\ messages'[t] # messages[t]) =>
            /\ Appends(t, TextMessage(u, calls[u].arg))
            /\ Participant(u, t)
            /\ ChatOpen(t)
            /\ Len(calls[u].arg) >= 1 /\ Len(calls[u].arg) <= MAX_BODY
            /\ calls[u].arg = trim(calls[u].arg)
       /\ Entering(u, "sendMessage", t) =>
            /\ messages' = messages
            /\ (~Participant(u, t) \/ ~ChatOpen(t)) => Fails(u, "sendMessage")
       /\ \A x \in {<<>>, <<" ">>, Long(MAX_BODY + 1)} :
            sendMessage(u, t, x) => Fails(u, "sendMessage")]_vars

ParticipantsBlocked(t) ==
  /\ tasks[t] # NoTask
  /\ \E r \in BagToSet(blocks) :
       {r.blocker_id, r.blocked_id} =
         {tasks[t].poster_id, tasks[t].accepted_by_user_id}

\* C16: while a block row exists in either direction between a task's poster
\* and its acceptor, also one made after the task was accepted or after the
\* call began, no step of a sendMessage call on that task appends a message,
\* the call's first step and its insert fail, and no step returns success.
C16_BlockedChat ==
  [][\A u \in Users, t \in TaskIds :
       ParticipantsBlocked(t) =>
         /\ Entering(u, "sendMessage", t) => Fails(u, "sendMessage")
         /\ (Stepping(u, "sendMessage", "insert") /\ calls[u].task = t)
              => Fails(u, "sendMessage")
         /\ (calls[u].op = "sendMessage" /\ calls[u].task = t
               /\ calls'[u] # calls[u]) =>
              /\ messages' = messages
              /\ response'.result # OK]_vars

C16_Witness ==
  /\ response.op = "sendMessage"
  /\ response.result = ErrSendBlocked
  /\ tasks[response.task].status = "ACCEPTED"
  /\ ParticipantsBlocked(response.task)
  /\ Participant(response.user, response.task)

\* ------------------------------------------------------------------ ratings
HasRated(u, t) == \E r \in ratings : r.task_id = t /\ r.rater_id = u

\* Call c takes a step.
RStepping(c) == rcalls[c].pc # "idle" /\ rcalls'[c] # rcalls[c]

\* User u starts a submitRating call on task t in this step.
REntering(u, t) ==
  \/ \E c \in RatingCalls :
       rcalls[c].pc = "idle" /\ rcalls'[c].user = u /\ rcalls'[c].task = t
  \/ /\ response'.op = "submitRating"
     /\ response'.user = u
     /\ response'.task = t
     /\ rcalls' = rcalls

\* C17: after every step there is at most one rating row per (task, rater),
\* also when one rater has two submitRating calls in flight; a step of a
\* submitRating call whose caller already has a rating for the task adds no
\* row and returns no success, and its look-up of the existing rating
\* returns the failure.
C17_OneRatingPerRater ==
  [][/\ \A r1, r2 \in ratings' :
          (r1.task_id = r2.task_id /\ r1.rater_id = r2.rater_id) => r1 = r2
     /\ \A u \in Users, t \in TaskIds :
          (REntering(u, t) /\ HasRated(u, t)) =>
             ratings' = ratings /\ response'.result # OK
     /\ \A c \in RatingCalls :
          (RStepping(c) /\ HasRated(rcalls[c].user, rcalls[c].task)) =>
             /\ ratings' = ratings
             /\ response'.result # OK
             /\ rcalls[c].pc = "existing" =>
                  response'.result = ErrAlreadyRated]_vars

C17_Witness ==
  /\ response.op = "submitRating"
  /\ response.result = ErrRatingFailed
  /\ tasks[response.task].status = "COMPLETE"
  /\ HasRated(response.user, response.task)

\* C18: a rating is inserted only while its task is COMPLETE, by the task's
\* poster or acceptor, for the other participant; and after every step every
\* stored rating has rater_id # ratee_id, both of them participants of its
\* task.
C18_RatingGuarded ==
  [][/\ \A c \in RatingCalls :
          (RStepping(c) /\ ratings' # ratings) =>
             LET u == rcalls[c].user
                 t == rcalls[c].task IN
             /\ tasks[t].status = "COMPLETE"
             /\ Participant(u, t)
             /\ \E r \in ratings' \ ratings :
                  /\ ratings' = ratings \cup {r}
                  /\ r.rater_id = u
                  /\ r.ratee_id = RateeOf(u, tasks[t])
     /\ \A r \in ratings' :
          /\ r.rater_id # r.ratee_id
          /\ {r.rater_id, r.ratee_id} =
               {tasks'[r.task_id].poster_id,
                tasks'[r.task_id].accepted_by_user_id}]_vars

\* ------------------------------------------------------------------- blocks
\* C19: a blockUser call whose target is the caller, or for whose (caller,
\* target) a block row exists, fails and adds no row, at its first store call
\* and at every later one (a row that a concurrent call inserted meanwhile);
\* after every step table blocks has no row with blocker_id = blocked_id and
\* at most one row per ordered pair.
C19_BlockGuarded ==
  [][/\ \A r \in BagToSet(blocks') :
          r.blocker_id # r.blocked_id /\ CopiesIn(r, blocks') <= 1
     /\ \A u, b \in Users :
          (blockUser(u, b) /\ (u = b \/ existingBlock(u, b))) =>
             Fails(u, "blockUser") /\ blocks' = blocks
     /\ \A u \in Users :
          (/\ calls[u].op = "blockUser"
           /\ calls'[u] # calls[u]
           /\ (u = calls[u].arg \/ existingBlock(u, calls[u].arg))) =>
             /\ blocks' = blocks
             /\ response'.result # OK
             /\ calls[u].pc = "insert" => Fails(u, "blockUser")]_vars

C19_Witness ==
  /\ response.op = "blockUser"
  /\ response.result = ErrAlreadyBlocked
  /\ \E b \in Users : existingBlock(response.user, b)

\* --------------------------------------------------------------- visibility
\* A block row exists, in either direction, between viewer u and the poster
\* or the acceptor of task t.
Hidden(u, t) ==
  /\ tasks[t] # NoTask
  /\ \E r \in BagToSet(blocks) :
       \/ {r.blocker_id, r.blocked_id} = {u, tasks[t].poster_id}
       \/ {r.blocker_id, r.blocked_id} = {u, tasks[t].accepted_by_user_id}

InRows(t, rows) == \E i \in 1..Len(rows) : rows[i] = t

\* C20: is_blocked(a, b) = is_blocked(b, a) in every state; and a task that
\* has, when a query of getTasks, getTask or getMyTasks reads table tasks, a
\* block row in either direction between the viewer and its poster or its
\* acceptor is absent from the rows of that query, whatever its status
\* (getTask returns 'Task not found').
C20_BlockHidesTask ==
  [][/\ \A a, b \in Users : is_blocked(a, b) = is_blocked(b, a)
     /\ \A u \in Users, t \in TaskIds :
          Hidden(u, t) =>
            /\ (response'.op = "getTasks" /\ response'.user = u) =>
                 ~InRows(t, response'.data)
            /\ Entering(u, "getTask", t) =>
                 /\ Fails(u, "getTask")
                 /\ response'.result = ErrNotFound
            /\ (calls[u] = Idle /\ calls'[u].op = "getMyTasks") =>
                 ~InRows(t, calls'[u].loc)
            /\ Stepping(u, "getMyTasks", "accepted") =>
                 ~InRows(t, response'.data.accepted)]_vars

C20_Witness ==
  /\ response.op = "getTask"
  /\ response.result = ErrNotFound
  /\ tasks[response.task].status = "COMPLETE"
  /\ Hidden(response.user, response.task)
  /\ ~existingBlock(response.user, tasks[response.task].poster_id)
  /\ ~existingBlock(response.user, tasks[response.task].accepted_by_user_id)

\* ------------------------------------------------------------------ unblock
\* C21: unblockUser(b) called by a returns success, whether or not a row
\* (a, b) exists, unless the store reports an error (then no row changes);
\* on success no row (a, b) is left and every other row keeps its copies, so
\* a row (b, a) stays and is_blocked(a, b) is still true after the call.
C21_UnblockFrame ==
  [][\A a, b \in Users :
       unblockUser(a, b) =>
         /\ response'.result \in {OK, ErrUnblockFailed}
         /\ response'.result = OK =>
              /\ ~BagIn(BlockRow(a, b), blocks')
              /\ \A r \in BlockRows \ {BlockRow(a, b)} :
                   CopiesIn(r, blocks') = CopiesIn(r, blocks)
         /\ response'.result # OK => blocks' = blocks
         /\ BagIn(BlockRow(b, a), blocks) => is_blocked(a, b)']_vars

C21_Witness ==
  /\ response.op = "unblockUser"
  /\ response.result = OK
  /\ \E b \in Users :
       /\ BagIn(BlockRow(b, response.user), blocks)
       /\ ~BagIn(BlockRow(response.user, b), blocks)

\* ------------------------------------------------------------ message order
\* C23: after every step the message list of every task has the previous list
\* as a prefix, and a getMessages call that succeeds returns the whole list
\* of its task, oldest first.
C23_AppendOnly ==
  [][\A t \in TaskIds :
       /\ Len(messages'[t]) >= Len(messages[t])
       /\ SubSeq(messages'[t], 1, Len(messages[t])) = messages[t]
       /\ \A u \in Users :
            (/\ Stepping(u, "getMessages", "select")
             /\ calls[u].task = t
             /\ response'.result = OK) =>
               response'.data = messages[t]]_vars

\* ------------------------------------------------- the policy and acceptTask
\* The row of task t as acceptTask's update finds it for caller u: OPEN,
\* without acceptor, of another poster, visible to u, u having accepted the
\* rules.
Acceptable_By(u, t) ==
  /\ tasks[t] # NoTask
  /\ tasks[t].status = "OPEN"
  /\ tasks[t].accepted_by_user_id = NULL
  /\ tasks[t].poster_id # u
  /\ profiles[u].accepted_rules
  /\ tasks_read(u, tasks[t])

\* C26: when acceptTask's conditional update runs for such a caller and task,
\* the row passes the USING filter of tasks_update and the new row passes its
\* WITH CHECK, and (unless the store reports an error) the task becomes
\* ACCEPTED with the caller as acceptor.
C26_PolicyAdmitsAccept ==
  [][\A u \in Users :
       (Stepping(u, "acceptTask", "update")
          /\ Acceptable_By(u, calls[u].task)) =>
         LET t == calls[u].task IN
         /\ tasks_update_using(u, tasks[t])
         /\ tasks_update_check(u, Apply(tasks[t], AcceptPatch(u)))
         /\ \/ response'.result = ErrAcceptFailed
            \/ /\ tasks'[t].status = "ACCEPTED"
               /\ tasks'[t].accepted_by_user_id = u]_vars

\* ------------------------------------------------------ reaching a terminal
\* C27: a cancelTask or completeTask call of the poster that finds its task
\* ACCEPTED is not refused at its task read, whatever block rows exist
\* between poster and acceptor.
C27_PosterCanFinish ==
  [][\A u \in Users, t \in TaskIds :
       (tasks[t].status = "ACCEPTED" /\ tasks[t].poster_id = u) =>
         /\ Entering(u, "cancelTask", t) => ~Fails(u, "cancelTask")
         /\ Entering(u, "completeTask", t) => ~Fails(u, "completeTask")]_vars

\* --------------------------------------------------- timestamps and acceptor
\* C28: in every state the timestamps of every task agree with its status:
\* completed_at is set exactly when the status is COMPLETE, canceled_at
\* exactly when it is CANCELED, accepted_at exactly when there is an
\* acceptor, and completed_at and canceled_at are never both set.
C28_TimestampsAgree ==
  \A t \in TaskIds :
    tasks[t] # NoTask =>
      /\ (tasks[t].completed_at # NULL) = (tasks[t].status = "COMPLETE")
      /\ (tasks[t].canceled_at # NULL) = (tasks[t].status = "CANCELED")
      /\ (tasks[t].accepted_at # NULL) = (tasks[t].accepted_by_user_id # NULL)
      /\ ~(tasks[t].completed_at # NULL /\ tasks[t].canceled_at # NULL)

\* The step is a store call of one of the lifecycle handlers or of updateTask.
HandlerStep ==
  \E u \in Users :
    /\ calls[u].op \in {"acceptTask", "cancelTask", "completeTask", "updateTask"}
    /\ calls'[u] # calls[u]

\* C29: after every step an OPEN task has no acceptor, an ACCEPTED or
\* COMPLETE task has one, and the acceptor is not the poster; and a store call
\* of acceptTask, cancelTask, completeTask or updateTask never changes an
\* acceptor that is set.
C29_AcceptorStable ==
  [][\A t \in TaskIds :
       /\ tasks'[t] # NoTask =>
            /\ tasks'[t].status = "OPEN" =>
                 tasks'[t].accepted_by_user_id = NULL
            /\ tasks'[t].status \in {"ACCEPTED", "COMPLETE"} =>
                 tasks'[t].accepted_by_user_id # NULL
            /\ tasks'[t].accepted_by_user_id # tasks'[t].poster_id
       /\ (HandlerStep /\ tasks[t].accepted_by_user_id # NULL) =>
            tasks'[t].accepted_by_user_id = tasks[t].accepted_by_user_id]_vars

\* C24: in every state every profile row has an address of the form
\* local-part@uci.edu; and when the auth callback has turned away a visitor
\* whose address is not of the campus domain, that visitor has no session and
\* no profile row.
C24_DomainRechecked ==
  \A u \in Users :
    /\ profiles[u] # NoProfile => email_format(profiles[u].email)
    /\ (response.op = "GET" /\ response.user = u
          /\ response.result # RedirectSignIn
          /\ ~isValidUCIEmail(auth[u].email)) =>
         /\ response.result = RedirectNotAllowed
         /\ ~auth[u].session
         /\ profiles[u] = NoProfile

\* C25: accepted_rules of a profile changes only in a successful acceptRules
\* of its owner, from false to true; acceptRules for another user fails and
\* changes no profile; a store call of the auth callback leaves a profile row
\* that exists as it is.
C25_RulesOnlyByOwner ==
  [][\A u \in Users :
       /\ profiles'[u].accepted_rules # profiles[u].accepted_rules =>
            /\ response' = Result(u, "acceptRules", NULL, OK)
            /\ ~profiles[u].accepted_rules
       /\ (\E userId \in Users \ {u} : acceptRules(u, userId)) =>
            /\ response'.result \in {ErrUnauthorized, ErrNotAuth}
            /\ profiles' = profiles
       /\ (calls[u].op = "GET" /\ calls'[u] # calls[u]
             /\ profiles[u] # NoProfile) =>
            profiles'[u] = profiles[u]]_vars

\* User u calls one of the mutation handlers in this step.
MutationCall(u) ==
  \/ \E x \in NewInputs : createTask(u, x)
  \/ \E t \in TaskIds, x \in Edits : updateTask(u, t, x)
  \/ \E t \in TaskIds :
       acceptTask(u, t) \/ cancelTask(u, t) \/ completeTask(u, t)
  \/ \E t \in TaskIds, x \in Bodies : sendMessage(u, t, x)
  \/ \E c \in RatingCalls, t \in TaskIds, x \in RatingInputs :
       submitRating(c, u, t, x)
  \/ \E b \in Users : blockUser(u, b) \/ unblockUser(u, b)
  \/ \E userId \in Users : acceptRules(u, userId)

MutationOps ==
  {"createTask", "updateTask", "acceptTask", "cancelTask", "completeTask",
   "sendMessage", "submitRating", "blockUser", "unblockUser", "acceptRules"}

\* C30: a call of a mutation handler by a user without a session returns
\* 'Not authenticated' in its first step: no call is left in flight for a
\* store read or write, and profiles, tasks, messages, ratings and blocks are
\* as before.
C30_NotAuthenticated ==
  [][\A u \in Users :
       (~auth[u].session /\ MutationCall(u)) =>
         /\ response'.user = u
         /\ response'.op \in MutationOps
         /\ response'.result = ErrNotAuth
         /\ UNCHANGED <<calls, rcalls>>
         /\ UNCHANGED <<profiles, tasks, messages, ratings, blocks>>]_vars

\* A user who has signed out is refused the removal of a block row that is
\* in the table, next to a task in the table.
C30_Witness ==
  /\ response.op = "unblockUser"
  /\ response.result = ErrNotAuth
  /\ ~auth[response.user].session
  /\ \E b \in Users : BagIn(BlockRow(response.user, b), blocks)
  /\ \E t \in TaskIds : tasks[t] # NoTask

\* C22: what a handler hands to its caller is a result: success, or a
\* failure with an error message, never an exception and never a failure
\* without a message, also when a store call fails or throws; and every call
\* in flight (of the poster, of the worker, the worker's submitRating)
\* returns.
C22_AlwaysResult ==
  /\ [](response.op \in HandlerOps =>
          /\ response.result \notin {NULL, Exception}
          /\ response.result # OK => response.data = <<>>)
  /\ \A u \in Posters \cup Assignees : Running(u) ~> ~Running(u)
  /\ (rcalls["r1"].pc # "idle") ~> (rcalls["r1"].pc = "idle")

\* A store call of completeTask threw after the status was written.
C22_Witness ==
  /\ response.op = "completeTask"
  /\ response.result = ErrWentWrong
  /\ \E t \in TaskIds : tasks[t].status = "COMPLETE"

====
